---- MODULE Spec2Model ----
(***************************************************************************)
(* ERD generator: the schema model (erd_generator/schema.py) and the       *)
(* migration parser (erd_generator/sql_parser.py) as state machines.       *)
(*                                                                         *)
(* A Python str is a sequence of one-character strings, so that lower()    *)
(* and upper() are computed character by character.  None and "" are both  *)
(* the empty sequence: every test the code makes on an optional name is a  *)
(* truthiness test (`if name:`, `(name or "")`), which cannot tell them    *)
(* apart.                                                                  *)
(***************************************************************************)
EXTENDS Integers, Sequences, FiniteSets, TLC

None == <<>>

\* the None that constraint_types.pop(key, None) returns: constraint kinds are
\* the literals "primary_key", "foreign_key", "unique" and "index"
NoKind == "None"

UpperCase == <<"A","B","C","D","E","F","G","H","I","J","K","L","M",
               "N","O","P","Q","R","S","T","U","V","W","X","Y","Z">>
LowerCase == <<"a","b","c","d","e","f","g","h","i","j","k","l","m",
               "n","o","p","q","r","s","t","u","v","w","x","y","z">>

LowerChar(c) ==
    IF \E i \in 1..Len(UpperCase) : UpperCase[i] = c
    THEN LowerCase[CHOOSE i \in 1..Len(UpperCase) : UpperCase[i] = c]
    ELSE c

UpperChar(c) ==
    IF \E i \in 1..Len(LowerCase) : LowerCase[i] = c
    THEN UpperCase[CHOOSE i \in 1..Len(LowerCase) : LowerCase[i] = c]
    ELSE c

\* str.lower()
lower(s) == [i \in 1..Len(s) |-> LowerChar(s[i])]

\* str.upper()
upper(s) == [i \in 1..Len(s) |-> UpperChar(s[i])]

\* the elements of a tuple / list, as a set
Elems(s) == {s[i] : i \in 1..Len(s)}

\* [f(x) for x in s]
MapSeq(s, F(_)) == [i \in 1..Len(s) |-> F(s[i])]

\* dict helpers: d[k] = v, d.pop(k, None) and d.get(k, default)
EmptyDict == [k \in {} |-> None]
DictPut(d, k, v) == [x \in (DOMAIN d) \cup {k} |-> IF x = k THEN v ELSE d[x]]
DictPop(d, k) == [x \in (DOMAIN d) \ {k} |-> d[x]]
DictGet(d, k, default) == IF k \in DOMAIN d THEN d[k] ELSE default

RECURSIVE DictPopAll(_, _)
DictPopAll(d, keys) ==
    IF keys = {} THEN d
    ELSE LET k == CHOOSE x \in keys : TRUE
         IN DictPopAll(DictPop(d, k), keys \ {k})

(***************************************************************************)
(* schema.py: the dataclasses                                              *)
(***************************************************************************)
Column(name, data_type, nullable, is_primary_key) ==
    [name |-> name, data_type |-> data_type, nullable |-> nullable,
     is_primary_key |-> is_primary_key]

ForeignKey(columns, ref_table, ref_columns, name) ==
    [columns |-> columns, ref_table |-> ref_table,
     ref_columns |-> ref_columns, name |-> name]

Index(name, columns, column_names, unique) ==
    [name |-> name, columns |-> columns, expression_columns |-> <<>>,
     column_names |-> column_names, unique |-> unique,
     method |-> None, where |-> None]

\* Table(name=name); oid is the identity of the Python object
Table(name, oid) ==
    [name |-> name, oid |-> oid, columns |-> <<>>, primary_key |-> {},
     foreign_keys |-> <<>>, indexes |-> <<>>,
     constraint_types |-> EmptyDict, primary_key_name |-> None]

(***************************************************************************)
(* schema.py: the methods of Table, each a function from the table before  *)
(* the call to the table after it                                          *)
(***************************************************************************)
\* Table.get_column: the position of the first match, 0 for None
get_column(T, column_name) ==
    LET target == lower(column_name)
        hits == {i \in 1..Len(T.columns) : lower(T.columns[i].name) = target}
    IN IF hits = {} THEN 0 ELSE CHOOSE i \in hits : \A j \in hits : i <= j

sync_primary_key_flags(T) ==
    LET pk_columns == {lower(col) : col \in T.primary_key}
        Flag(column) ==
            [column EXCEPT !.is_primary_key = lower(column.name) \in pk_columns]
    IN [T EXCEPT !.columns = MapSeq(T.columns, Flag)]

\* add_column with the trailing sync_primary_key_flags() left out
add_column_nosync(T, column) ==
    LET i == get_column(T, column.name)
        cols == IF i > 0
                THEN [T.columns EXCEPT ![i] =
                        [@ EXCEPT !.data_type = column.data_type,
                                  !.nullable = column.nullable,
                                  !.is_primary_key = column.is_primary_key]]
                ELSE Append(T.columns, column)
        pk == IF column.is_primary_key
              THEN T.primary_key \cup {column.name}
              ELSE T.primary_key
    IN [T EXCEPT !.columns = cols, !.primary_key = pk]

add_column(T, column) ==
    LET i == get_column(T, column.name)
        cols == IF i > 0
                THEN [T.columns EXCEPT ![i] =
                        [@ EXCEPT !.data_type = column.data_type,
                                  !.nullable = column.nullable,
                                  !.is_primary_key = column.is_primary_key]]
                ELSE Append(T.columns, column)
        pk == IF column.is_primary_key
              THEN T.primary_key \cup {column.name}
              ELSE T.primary_key
    IN sync_primary_key_flags([T EXCEPT !.columns = cols, !.primary_key = pk])

add_foreign_key(T, foreign_key, constraint_name) ==
    IF constraint_name # None
    THEN LET key == lower(constraint_name)
         IN [T EXCEPT
               !.constraint_types = DictPut(@, key, "foreign_key"),
               !.foreign_keys = Append(@, [foreign_key EXCEPT !.name = key])]
    ELSE IF foreign_key.name # None
    THEN LET key == lower(foreign_key.name)
         IN [T EXCEPT
               !.constraint_types = DictPut(@, key, "foreign_key"),
               !.foreign_keys = Append(@, [foreign_key EXCEPT !.name = key])]
    ELSE [T EXCEPT !.foreign_keys = Append(@, foreign_key)]

set_primary_key(T, columns, constraint_name) ==
    LET T1 == [T EXCEPT !.primary_key = columns]
        T2 == IF constraint_name # None
              THEN [T1 EXCEPT
                      !.constraint_types =
                          DictPut(@, lower(constraint_name), "primary_key"),
                      !.primary_key_name = lower(constraint_name)]
              ELSE T1
    IN sync_primary_key_flags(T2)

add_index(T, index, constraint_name, constraint_type) ==
    LET name_key == IF constraint_name # None THEN lower(constraint_name)
                    ELSE IF index.name # None THEN lower(index.name)
                    ELSE None
        idx == IF name_key # None THEN [index EXCEPT !.name = name_key] ELSE index
        ct == IF constraint_name # None
              THEN DictPut(T.constraint_types, name_key, constraint_type)
              ELSE T.constraint_types
        hits == IF name_key = None THEN {}
                ELSE {i \in 1..Len(T.indexes) : lower(T.indexes[i].name) = name_key}
    IN IF hits # {}
       THEN LET i == CHOOSE x \in hits : \A y \in hits : x <= y
            IN [T EXCEPT
                  !.constraint_types = ct,
                  !.indexes[i] =
                      [@ EXCEPT !.columns = idx.columns,
                                !.expression_columns = idx.expression_columns,
                                !.column_names = idx.column_names,
                                !.unique = idx.unique,
                                !.method = idx.method,
                                !.where = idx.where]]
       ELSE [T EXCEPT !.constraint_types = ct, !.indexes = Append(@, idx)]

\* drop_column that forgets the foreign keys and the indexes
drop_column_columns_only(T, column_name) ==
    LET target == lower(column_name)
        KeepColumn(column) == lower(column.name) # target
    IN sync_primary_key_flags(
         [T EXCEPT
            !.columns = SelectSeq(@, KeepColumn),
            !.primary_key = {col \in @ : lower(col) # target}])

drop_column(T, column_name) ==
    LET target == lower(column_name)
        KeepColumn(column) == lower(column.name) # target
        Uses(fk) == target \in {lower(col) : col \in Elems(fk.columns)}
        KeepFk(fk) == ~Uses(fk)
        fk_names == {T.foreign_keys[i].name : i \in
                        {j \in 1..Len(T.foreign_keys) :
                            /\ T.foreign_keys[j].name # None
                            /\ Uses(T.foreign_keys[j])}}
        KeepIndex(idx) ==
            \A i \in 1..Len(idx.column_names) : lower(idx.column_names[i]) # target
        ct == DictPopAll(T.constraint_types, {lower(name) : name \in fk_names})
        pk_name == IF T.primary_key_name # None /\ T.primary_key_name \notin DOMAIN ct
                   THEN None
                   ELSE T.primary_key_name
    IN sync_primary_key_flags(
         [T EXCEPT
            !.columns = SelectSeq(@, KeepColumn),
            !.primary_key = {col \in @ : lower(col) # target},
            !.foreign_keys = SelectSeq(@, KeepFk),
            !.constraint_types = ct,
            !.indexes = SelectSeq(@, KeepIndex),
            !.primary_key_name = pk_name])

\* drop_constraint that pops the name and nothing else
drop_constraint_pop_only(T, constraint_name) ==
    [T EXCEPT !.constraint_types = DictPop(@, lower(constraint_name))]

drop_constraint(T, constraint_name) ==
    LET key == lower(constraint_name)
        constraint_type == DictGet(T.constraint_types, key, NoKind)
        T1 == [T EXCEPT !.constraint_types = DictPop(@, key)]
        NotNamed(x) == lower(x.name) # key
    IN IF constraint_type = "primary_key"
       THEN sync_primary_key_flags(
              [T1 EXCEPT !.primary_key = {}, !.primary_key_name = None])
       ELSE IF constraint_type = "foreign_key"
       THEN [T1 EXCEPT !.foreign_keys = SelectSeq(@, NotNamed)]
       ELSE IF constraint_type = "unique"
       THEN [T1 EXCEPT !.indexes = SelectSeq(@, NotNamed)]
       ELSE T1

\* the position of the first element of s whose lower-cased name is key, or 0
FirstNamed(s, key) ==
    LET hits == {i \in 1..Len(s) : lower(s[i].name) = key}
    IN IF hits = {} THEN 0 ELSE CHOOSE i \in hits : \A j \in hits : i <= j

rename_constraint(T, old_name, new_name) ==
    LET old_key == lower(old_name)
        new_key == lower(new_name)
        constraint_type == DictGet(T.constraint_types, old_key, NoKind)
        T1 == [T EXCEPT
                 !.constraint_types =
                     DictPut(DictPop(@, old_key), new_key, constraint_type)]
        f == FirstNamed(T.foreign_keys, old_key)
        x == FirstNamed(T.indexes, old_key)
    IN IF constraint_type = NoKind THEN T
       ELSE IF constraint_type = "primary_key"
       THEN [T1 EXCEPT !.primary_key_name = new_key]
       ELSE IF constraint_type = "foreign_key" /\ f > 0
       THEN [T1 EXCEPT !.foreign_keys[f].name = new_key]
       ELSE IF constraint_type = "unique" /\ x > 0
       THEN [T1 EXCEPT !.indexes[x].name = new_key]
       ELSE T1

\* rename_column on one index: (columns, column_names) after lines 206-218
RenameInIndex(idx, old_key, new_name) ==
    LET columns == idx.columns
        given == idx.column_names
        column_names ==
            IF given # <<>> /\ Len(given) # Len(columns)
            THEN MapSeq(columns, lower)
            ELSE given
        Hit(i) == column_names[i] # None /\ lower(column_names[i]) = old_key
        \* enumerate(column_names) writes columns[i]: an IndexError when
        \* column_names is longer than columns cannot arise, the lengths agree
        changed == \E i \in 1..Len(column_names) : Hit(i)
    IN IF changed
       THEN [idx EXCEPT
               !.columns = [i \in 1..Len(columns) |->
                              IF i <= Len(column_names) /\ Hit(i)
                              THEN upper(new_name) ELSE columns[i]],
               !.column_names = [i \in 1..Len(column_names) |->
                              IF Hit(i) THEN lower(new_name) ELSE column_names[i]]]
       ELSE idx

\* rename_column that renames the column list and the primary key only
rename_column_no_cascade(T, old_name, new_name) ==
    LET old_key == lower(old_name)
        Ren(col) == IF lower(col) = old_key THEN new_name ELSE col
        RenColumn(column) == [column EXCEPT !.name = Ren(column.name)]
    IN sync_primary_key_flags(
         [T EXCEPT
            !.columns = MapSeq(@, RenColumn),
            !.primary_key = {Ren(col) : col \in @}])

rename_column(T, old_name, new_name) ==
    LET old_key == lower(old_name)
        Ren(col) == IF lower(col) = old_key THEN new_name ELSE col
        RenColumn(column) == [column EXCEPT !.name = Ren(column.name)]
        RenFk(fk) ==
            [fk EXCEPT
               !.columns = MapSeq(@, Ren),
               !.ref_columns = IF fk.ref_table = T.name THEN MapSeq(@, Ren) ELSE @]
        RenIdx(idx) == RenameInIndex(idx, old_key, new_name)
    IN sync_primary_key_flags(
         [T EXCEPT
            !.columns = MapSeq(@, RenColumn),
            !.primary_key = {Ren(col) : col \in @},
            !.foreign_keys = MapSeq(@, RenFk),
            !.indexes = MapSeq(@, RenIdx)])

\* drop_index that pops the constraint name whether or not an index was removed
drop_index_always_pop(T, index_name) ==
    LET key == lower(index_name)
        Remaining(idx) == lower(idx.name) # key
    IN [T EXCEPT
          !.indexes = SelectSeq(@, Remaining),
          !.constraint_types = DictPop(@, key)]

drop_index(T, index_name) ==
    LET key == lower(index_name)
        Remaining(idx) == lower(idx.name) # key
        removed == \E i \in 1..Len(T.indexes) : lower(T.indexes[i].name) = key
    IN IF removed
       THEN [T EXCEPT
               !.indexes = SelectSeq(@, Remaining),
               !.constraint_types = DictPop(@, key)]
       ELSE T

rename_index(T, old_name, new_name) ==
    LET old_key == lower(old_name)
        new_key == lower(new_name)
        i == FirstNamed(T.indexes, old_key)
    IN IF i > 0
       THEN [T EXCEPT
               !.indexes[i].name = new_key,
               !.constraint_types =
                   DictPut(DictPop(@, old_key), new_key, DictGet(@, old_key, "index"))]
       ELSE T

(***************************************************************************)
(* schema.py: the helpers on a whole Schema, a dict from table name to     *)
(* Table                                                                   *)
(***************************************************************************)
\* the loop of rename_table over every foreign key of every table
Retarget(s, old_name, new_name) ==
    LET Fix(fk) == IF fk.ref_table = old_name
                   THEN [fk EXCEPT !.ref_table = new_name] ELSE fk
    IN [k \in DOMAIN s |-> [s[k] EXCEPT !.foreign_keys = MapSeq(@, Fix)]]

\* rename_table without the assignment to table.name
rename_table_keeps_name(s, old_name, new_name) ==
    IF old_name \notin DOMAIN s THEN s
    ELSE Retarget(DictPut(DictPop(s, old_name), new_name, s[old_name]),
                  old_name, new_name)

\* rename_table that moves the table and leaves the foreign keys alone
rename_table_no_fixup(s, old_name, new_name) ==
    IF old_name \notin DOMAIN s THEN s
    ELSE DictPut(DictPop(s, old_name), new_name, [s[old_name] EXCEPT !.name = new_name])

rename_table(s, old_name, new_name) ==
    IF old_name \notin DOMAIN s THEN s
    ELSE LET table == [s[old_name] EXCEPT !.name = new_name]
             s1 == DictPut(DictPop(s, old_name), new_name, table)
         IN Retarget(s1, old_name, new_name)

\* rename_column_in_schema that renames inside the table only
rename_column_in_schema_local(s, table_name, old_name, new_name) ==
    IF table_name \notin DOMAIN s THEN s
    ELSE [s EXCEPT ![table_name] = rename_column(@, old_name, new_name)]

rename_column_in_schema(s, table_name, old_name, new_name) ==
    IF table_name \notin DOMAIN s THEN s
    ELSE LET Ren(col) == IF lower(col) = lower(old_name) THEN new_name ELSE col
             Fix(fk) == IF fk.ref_table = table_name
                        THEN [fk EXCEPT !.ref_columns = MapSeq(@, Ren)] ELSE fk
             Own(k) == IF k = table_name
                       THEN rename_column(s[k], old_name, new_name) ELSE s[k]
         IN [k \in DOMAIN s |->
               IF Own(k).name = table_name THEN Own(k)
               ELSE [Own(k) EXCEPT !.foreign_keys = MapSeq(@, Fix)]]

(***************************************************************************)
(* sql_parser.py.  A statement is what the regular expressions capture     *)
(* from the text: the raw identifiers and, per item of a CREATE body, the  *)
(* groups that parse_column_definition and parse_table_constraint read.    *)
(***************************************************************************)
Whitespace == {" ", "\t", "\n"}

RECURSIVE lstrip(_)
lstrip(s) == IF s # <<>> /\ Head(s) \in Whitespace THEN lstrip(Tail(s)) ELSE s

RECURSIVE rstrip(_)
rstrip(s) ==
    IF s # <<>> /\ s[Len(s)] \in Whitespace
    THEN rstrip(SubSeq(s, 1, Len(s) - 1)) ELSE s

\* str.strip()
strip(s) == rstrip(lstrip(s))

\* str.split(sep): the parts between the separators, empty parts included
RECURSIVE split(_, _)
split(s, sep) ==
    LET hits == {i \in 1..Len(s) : s[i] = sep}
    IN IF hits = {} THEN <<s>>
       ELSE LET i == CHOOSE x \in hits : \A y \in hits : x <= y
            IN <<SubSeq(s, 1, i - 1)>> \o split(SubSeq(s, i + 1, Len(s)), sep)

\* sep.join(parts)
RECURSIVE join(_, _)
join(parts, sep) ==
    IF parts = <<>> THEN <<>>
    ELSE IF Len(parts) = 1 THEN parts[1]
    ELSE parts[1] \o <<sep>> \o join(Tail(parts), sep)

\* split_top_level_commas with the depth left out: every comma ends an item
split_every_comma(text) ==
    LET NonBlank(part) == strip(part) # <<>>
    IN MapSeq(SelectSeq(split(text, ","), NonBlank), strip)

\* the loop of split_top_level_commas over the characters still to be read
RECURSIVE SplitScan(_, _, _, _)
SplitScan(text, parts, buf, depth) ==
    IF text = <<>>
    THEN IF strip(buf) # <<>> THEN Append(parts, strip(buf)) ELSE parts
    ELSE LET ch == Head(text)
             d == IF ch = "(" THEN depth + 1
                  ELSE IF ch = ")" THEN (IF depth - 1 > 0 THEN depth - 1 ELSE 0)
                  ELSE depth
         IN IF ch = "," /\ d = 0
            THEN SplitScan(Tail(text),
                           IF strip(buf) # <<>> THEN Append(parts, strip(buf)) ELSE parts,
                           <<>>, d)
            ELSE SplitScan(Tail(text), parts, Append(buf, ch), d)

split_top_level_commas(text) == SplitScan(text, <<>>, <<>>, 0)

\* one dot-separated part of an identifier
NormalizePart(raw) ==
    LET part == strip(raw)
    IN IF part # <<>> /\ Head(part) = "\"" /\ part[Len(part)] = "\""
       THEN SubSeq(part, 2, Len(part) - 1)
       ELSE lower(part)

normalize_identifier(identifier) ==
    LET id == strip(identifier)
    IN IF id = <<>> THEN id
       ELSE join(MapSeq(split(id, "."), NormalizePart), ".")

\* split_identifier_list, given the chunks raw.split(",") yields
split_identifier_list(chunks) ==
    LET NonBlank(chunk) == strip(chunk) # <<>>
    IN MapSeq(SelectSeq(chunks, NonBlank), normalize_identifier)

\* an item of the form name, white space, rest: the name, the type tokens
\* of rest, its two substring tests, and the groups of INLINE_FOREIGN_KEY_RE
\* (None: no match)
ColumnItem(raw_name, data_type, not_null, primary_key, references) ==
    [kind |-> "column", raw_name |-> raw_name, data_type |-> data_type,
     not_null |-> not_null, primary_key |-> primary_key,
     references |-> references]

\* an item that starts with CONSTRAINT, PRIMARY, FOREIGN, UNIQUE or CHECK:
\* the groups of PRIMARY_KEY_RE and TABLE_FOREIGN_KEY_RE (None: no match)
ConstraintItem(pk_cols, foreign_key) ==
    [kind |-> "constraint", pk_cols |-> pk_cols, foreign_key |-> foreign_key]

\* the groups of a REFERENCES clause
Reference(src, ref_table, ref) == [src |-> src, ref_table |-> ref_table, ref |-> ref]

CreateStatement(name, items) == [kind |-> "create", name |-> name, items |-> items]

AlterStatement(table, src, ref_table, ref) ==
    [kind |-> "alter", table |-> table, src |-> src, ref_table |-> ref_table, ref |-> ref]

\* the prefixes that make parse_column_definition leave an item to
\* parse_table_constraint
ConstraintKeywords ==
    {<<"C","O","N","S","T","R","A","I","N","T">>,
     <<"P","R","I","M","A","R","Y">>,
     <<"F","O","R","E","I","G","N">>,
     <<"U","N","I","Q","U","E">>,
     <<"C","H","E","C","K">>}

\* str.startswith(prefix)
startswith(s, prefix) ==
    Len(s) >= Len(prefix) /\ SubSeq(s, 1, Len(prefix)) = prefix

\* item.upper().startswith(("CONSTRAINT", "PRIMARY", "FOREIGN", "UNIQUE",
\* "CHECK")) for an item that begins with raw_name followed by white space
StartsWithKeyword(raw_name) ==
    \E keyword \in ConstraintKeywords : startswith(upper(raw_name), keyword)

parse_column_definition(item, T) ==
    IF item.kind # "column" \/ StartsWithKeyword(item.raw_name) THEN T
    ELSE LET name == normalize_identifier(item.raw_name)
             column == Column(name, item.data_type, ~item.not_null, item.primary_key)
             T1 == [T EXCEPT
                      !.columns = Append(@, column),
                      !.primary_key = IF column.is_primary_key
                                      THEN @ \cup {column.name} ELSE @]
         IN IF item.references # None
            THEN [T1 EXCEPT !.foreign_keys = Append(@,
                    ForeignKey(<<column.name>>,
                               normalize_identifier(item.references.ref_table),
                               split_identifier_list(item.references.ref),
                               None))]
            ELSE T1

parse_table_constraint(item, T) ==
    IF item.kind # "constraint" THEN T
    ELSE LET T1 == IF item.pk_cols # None
                   THEN [T EXCEPT !.primary_key =
                           @ \cup Elems(split_identifier_list(item.pk_cols))]
                   ELSE T
         IN IF item.foreign_key # None
            THEN [T1 EXCEPT !.foreign_keys = Append(@,
                    ForeignKey(split_identifier_list(item.foreign_key.src),
                               normalize_identifier(item.foreign_key.ref_table),
                               split_identifier_list(item.foreign_key.ref),
                               None))]
            ELSE T1

\* for item in items: parse_column_definition(item, table)
RECURSIVE ParseColumns(_, _)
ParseColumns(items, T) ==
    IF items = <<>> THEN T
    ELSE ParseColumns(Tail(items), parse_column_definition(Head(items), T))

\* for item in items: parse_table_constraint(item, table)
RECURSIVE ParseConstraints(_, _)
ParseConstraints(items, T) ==
    IF items = <<>> THEN T
    ELSE ParseConstraints(Tail(items), parse_table_constraint(Head(items), T))

\* the identity of a Table object constructed now
NewOid(s) ==
    LET used == {s[k].oid : k \in DOMAIN s}
    IN IF used = {} THEN 1 ELSE 1 + CHOOSE m \in used : \A n \in used : n <= m

\* one iteration of parse_create_table's loop that builds a new Table
\* object for a name the Schema already has
parse_create_table_fresh(stmt, s) ==
    LET table_name == normalize_identifier(stmt.name)
        cleared == Table(table_name, NewOid(s))
    IN DictPut(s, table_name,
               ParseConstraints(stmt.items, ParseColumns(stmt.items, cleared)))

\* one iteration of parse_create_table's loop
parse_create_table(stmt, s) ==
    LET table_name == normalize_identifier(stmt.name)
        table == IF table_name \in DOMAIN s THEN s[table_name]
                 ELSE Table(table_name, NewOid(s))
        cleared == [table EXCEPT
                      !.columns = <<>>, !.primary_key = {}, !.foreign_keys = <<>>]
    IN DictPut(s, table_name,
               ParseConstraints(stmt.items, ParseColumns(stmt.items, cleared)))

\* one iteration of parse_alter_table's loop
parse_alter_table(stmt, s) ==
    LET table_name == normalize_identifier(stmt.table)
        table == IF table_name \in DOMAIN s THEN s[table_name]
                 ELSE Table(table_name, NewOid(s))
        fk == ForeignKey(split_identifier_list(stmt.src),
                         normalize_identifier(stmt.ref_table),
                         split_identifier_list(stmt.ref),
                         None)
    IN DictPut(s, table_name, [table EXCEPT !.foreign_keys = Append(@, fk)])

\* the matches parse_schema_from_sql works through: every CREATE, in text
\* order, then every ALTER
Matches(text) ==
    LET IsCreate(stmt) == stmt.kind = "create"
        IsAlter(stmt) == stmt.kind = "alter"
    IN SelectSeq(text, IsCreate) \o SelectSeq(text, IsAlter)

\* the character order of str comparison (code points), on the characters
\* paths and identifiers are made of
CodeOrder ==
    <<"\"", ".", "/", "0", "1", "2", "3", "4", "5", "6", "7", "8", "9">>
    \o UpperCase \o <<"_">> \o LowerCase
Ord(c) == CHOOSE i \in 1..Len(CodeOrder) : CodeOrder[i] = c

\* a < b for two str
RECURSIVE StrLess(_, _)
StrLess(a, b) ==
    IF b = <<>> THEN FALSE
    ELSE IF a = <<>> THEN TRUE
    ELSE IF Head(a) = Head(b) THEN StrLess(Tail(a), Tail(b))
    ELSE Ord(Head(a)) < Ord(Head(b))

\* the files taken in the order glob listed them, the sort left out
glob_order(paths) == paths

\* sorted(paths), for distinct paths
RECURSIVE sorted(_)
sorted(paths) ==
    IF paths = <<>> THEN <<>>
    ELSE LET least == CHOOSE p \in Elems(paths) :
                        \A q \in Elems(paths) : p = q \/ StrLess(p, q)
             NotLeast(p) == p # least
         IN <<least>> \o sorted(SelectSeq(paths, NotLeast))

\* files = sorted(glob.glob(...)), given the order glob listed the files in
sorted_glob(paths) == sorted(paths)

\* the end of load_schema_from_migrations with the loop over the tables left
\* out
SyncNone(s) == s

\* the end of load_schema_from_migrations
SyncAll(s) == [k \in DOMAIN s |-> sync_primary_key_flags(s[k])]

(***************************************************************************)
(* The schema API as a state machine.  schema is the Schema being mutated; *)
(* last names the call that produced it and before is the Schema on entry  *)
(* to that call, so that every call's contract is a predicate of one       *)
(* state.  result is what the last call returned, for the functions that   *)
(* return a value.                                                         *)
(***************************************************************************)
VARIABLES schema, before, last, steps, pc, files, listing, queue, result

vars == <<schema, before, last, steps, pc, files, listing, queue, result>>

\* how many calls one behaviour makes
MaxSteps == 2

\* the identifiers the calls are made with
TableT == <<"t">>
TableU == <<"u">>
ColA == <<"a">>
ColB == <<"b">>
ColC == <<"c">>
TypeInt == <<"I","N","T">>

Call(op, table, name, new, arg) ==
    [op |-> op, table |-> table, name |-> name, new |-> new, arg |-> arg]

\* every call leaves the loader's variables alone
Api(call, s) ==
    /\ pc = "idle"
    /\ steps < MaxSteps
    /\ steps' = steps + 1
    /\ before' = schema
    /\ last' = call
    /\ schema' = s
    /\ UNCHANGED <<pc, files, listing, queue, result>>

OnTable(k, T) == [schema EXCEPT ![k] = T]

AddColumn(k, column) ==
    Api(Call("add_column", k, column.name, None, column),
        OnTable(k, add_column(schema[k], column)))

AddForeignKey(k, fk, constraint_name) ==
    Api(Call("add_foreign_key", k, constraint_name, None, fk),
        OnTable(k, add_foreign_key(schema[k], fk, constraint_name)))

SetPrimaryKey(k, columns, constraint_name) ==
    Api(Call("set_primary_key", k, constraint_name, None, columns),
        OnTable(k, set_primary_key(schema[k], columns, constraint_name)))

AddIndex(k, index, constraint_name, constraint_type) ==
    Api(Call("add_index", k, constraint_name, None, index),
        OnTable(k, add_index(schema[k], index, constraint_name, constraint_type)))

DropColumn(k, name) ==
    Api(Call("drop_column", k, name, None, None),
        OnTable(k, drop_column(schema[k], name)))

RenameColumn(k, old, new) ==
    Api(Call("rename_column", k, old, new, None),
        OnTable(k, rename_column(schema[k], old, new)))

DropConstraint(k, name) ==
    Api(Call("drop_constraint", k, name, None, None),
        OnTable(k, drop_constraint(schema[k], name)))

RenameConstraint(k, old, new) ==
    Api(Call("rename_constraint", k, old, new, None),
        OnTable(k, rename_constraint(schema[k], old, new)))

DropIndex(k, name) ==
    Api(Call("drop_index", k, name, None, None),
        OnTable(k, drop_index(schema[k], name)))

RenameIndex(k, old, new) ==
    Api(Call("rename_index", k, old, new, None),
        OnTable(k, rename_index(schema[k], old, new)))

RenameTable(old, new) ==
    Api(Call("rename_table", None, old, new, None),
        rename_table(schema, old, new))

RenameColumnInSchema(k, old, new) ==
    Api(Call("rename_column_in_schema", k, old, new, None),
        rename_column_in_schema(schema, k, old, new))

(***************************************************************************)
(* Spec: a client of the schema API.  The Schema starts as one table built *)
(* with the API itself from a fresh Table, and the client then makes up to *)
(* MaxSteps calls, of any method, with any of the arguments below.         *)
(***************************************************************************)
NamePk == <<"P","K">>
NameFk == <<"F","K">>
NameUq == <<"U","Q">>
NameIx == <<"i","x">>
NameZz == <<"z","z">>

FkSelf == ForeignKey(<<ColB>>, TableT, <<ColA>>, None)
FkOut == ForeignKey(<<ColA>>, TableU, <<ColA>>, None)
FkNamed == ForeignKey(<<ColC>>, TableU, <<>>, NameZz)

\* an index on column b, its column_names aligned with its columns
IndexB == Index(None, <<upper(ColB)>>, <<ColB>>, TRUE)
\* an index on (a, lower(c)): the expression has no column name
IndexA == Index(NameIx, <<upper(ColA), <<"l","o","w","e","r","(","c",")">> >>,
                <<ColA, None>>, FALSE)
\* an index built without column_names
IndexPlain == Index(None, <<ColA>>, <<>>, FALSE)

SeedTable(withPk, withFks, withIndex) ==
    LET T0 == Table(TableT, 1)
        T1 == add_column(add_column(T0, Column(ColA, TypeInt, FALSE, FALSE)),
                         Column(ColB, TypeInt, TRUE, FALSE))
        T2 == IF withPk THEN set_primary_key(T1, {ColA}, NamePk) ELSE T1
        T3 == IF withFks
              THEN add_foreign_key(add_foreign_key(T2, FkSelf, NameFk), FkOut, None)
              ELSE T2
    IN IF withIndex THEN add_index(T3, IndexB, NameUq, "unique") ELSE T3

SeedTables ==
    {Table(TableT, 1)}
    \cup {SeedTable(p, f, x) : p \in BOOLEAN, f \in BOOLEAN, x \in BOOLEAN}

ColumnInputs ==
    {Column(n, TypeInt, TRUE, p) : n \in {<<"A">>, ColC}, p \in BOOLEAN}
PrimaryKeyInputs == {{}, {<<"A">>}, {ColB, ColC}}
ColumnNames == {ColA, <<"B">>, ColC}
NewColumnNames == {ColA, <<"C">>}
ConstraintNames == {<<"p","k">>, NameFk, <<"u","q">>, NameZz}
NewConstraintNames == {<<"N">>, <<"f","k">>}
IndexNames == {NameUq, NameIx, NameZz}
TableNames == {TableT, TableU}

InitLoader ==
    /\ pc = "idle"
    /\ files = EmptyDict
    /\ listing = <<>>
    /\ queue = <<>>
    /\ result = None

Init ==
    /\ schema \in {[k \in {TableT} |-> T] : T \in SeedTables}
    /\ before = schema
    /\ last = Call("init", None, None, None, None)
    /\ steps = 0
    /\ InitLoader

Next ==
    \/ \E k \in DOMAIN schema, column \in ColumnInputs : AddColumn(k, column)
    \/ \E k \in DOMAIN schema, fk \in {FkSelf, FkNamed}, name \in {None, NameFk} :
          AddForeignKey(k, fk, name)
    \/ \E k \in DOMAIN schema, columns \in PrimaryKeyInputs, name \in {None, NamePk} :
          SetPrimaryKey(k, columns, name)
    \/ \E k \in DOMAIN schema, index \in {IndexA, IndexPlain} :
          \/ AddIndex(k, index, None, "index")
          \/ AddIndex(k, index, NameUq, "unique")
    \/ \E k \in DOMAIN schema, name \in ColumnNames : DropColumn(k, name)
    \/ \E k \in DOMAIN schema, old \in ColumnNames, new \in NewColumnNames :
          RenameColumn(k, old, new)
    \/ \E k \in DOMAIN schema, name \in ConstraintNames : DropConstraint(k, name)
    \/ \E k \in DOMAIN schema, old \in ConstraintNames, new \in NewConstraintNames :
          RenameConstraint(k, old, new)
    \/ \E k \in DOMAIN schema, name \in IndexNames : DropIndex(k, name)
    \/ \E k \in DOMAIN schema, old \in IndexNames, new \in {<<"N">>} :
          RenameIndex(k, old, new)
    \/ \E old \in TableNames, new \in TableNames : RenameTable(old, new)
    \/ \E k \in TableNames, old \in {ColA, ColC}, new \in NewColumnNames :
          RenameColumnInSchema(k, old, new)

Spec == Init /\ [][Next]_vars

(***************************************************************************)
(* Properties of the schema API (checked under Spec)                       *)
(***************************************************************************)
LowerSet(names) == {lower(n) : n \in names}
ColumnNamesOf(T) == {T.columns[i].name : i \in 1..Len(T.columns)}
FkPositions(T) == 1..Len(T.foreign_keys)
IndexPositions(T) == 1..Len(T.indexes)
LocalFkColumns(T) == UNION {Elems(T.foreign_keys[i].columns) : i \in FkPositions(T)}
SelfFkTargets(T) ==
    UNION {Elems(T.foreign_keys[i].ref_columns) :
             i \in {j \in FkPositions(T) : T.foreign_keys[j].ref_table = T.name}}
CoveredColumns(T) ==
    UNION {Elems(T.indexes[i].column_names) : i \in IndexPositions(T)} \ {None}
Aligned(idx) == idx.column_names = <<>> \/ Len(idx.column_names) = Len(idx.columns)

FlagsMatchPrimaryKey(T) ==
    \A i \in 1..Len(T.columns) :
        T.columns[i].is_primary_key
            <=> (\E col \in T.primary_key : lower(col) = lower(T.columns[i].name))

\* C1: after every call of the API, in every table, a column's
\* is_primary_key flag is true exactly when its name, compared ignoring
\* case, is in the table's primary_key set.
C1_FlagsFollowPrimaryKey ==
    \A k \in DOMAIN schema : FlagsMatchPrimaryKey(schema[k])

\* C1 witness: add_column was given is_primary_key = False for a column whose
\* name is in the primary-key set, and the flag is true on return.
C1_Witness ==
    /\ last.op = "add_column"
    /\ ~last.arg.is_primary_key
    /\ LET T == schema[last.table]
       IN /\ get_column(T, last.name) > 0
          /\ T.columns[get_column(T, last.name)].is_primary_key
          /\ \E i \in 1..Len(T.columns) : ~T.columns[i].is_primary_key

C7_DropConstraintByKind ==
    last.op = "drop_constraint" =>
        LET B == before[last.table]
            T == schema[last.table]
            key == lower(last.name)
            kind == IF key \in DOMAIN B.constraint_types
                    THEN B.constraint_types[key] ELSE NoKind
            Other(x) == x.name # key
        IN /\ key \notin DOMAIN T.constraint_types
           /\ last.name \notin DOMAIN T.constraint_types
           /\ kind = "primary_key" =>
                 /\ T.primary_key = {}
                 /\ T.primary_key_name = None
                 /\ \A i \in 1..Len(T.columns) : ~T.columns[i].is_primary_key
                 /\ T.foreign_keys = B.foreign_keys
                 /\ T.indexes = B.indexes
           /\ kind = "foreign_key" =>
                 /\ T.foreign_keys = SelectSeq(B.foreign_keys, Other)
                 /\ T.primary_key = B.primary_key
                 /\ T.indexes = B.indexes
           /\ kind = "unique" =>
                 /\ T.indexes = SelectSeq(B.indexes, Other)
                 /\ T.primary_key = B.primary_key
                 /\ T.foreign_keys = B.foreign_keys

\* C7 witness: a foreign-key constraint was dropped by an upper-case name; the
\* foreign key of that name is gone and another foreign key is still there.
C7_Witness ==
    /\ last.op = "drop_constraint"
    /\ last.name # lower(last.name)
    /\ LET B == before[last.table]
           T == schema[last.table]
       IN /\ lower(last.name) \in DOMAIN B.constraint_types
          /\ B.constraint_types[lower(last.name)] = "foreign_key"
          /\ Len(T.foreign_keys) < Len(B.foreign_keys)
          /\ T.foreign_keys # <<>>

\* what rename_column(old, new) makes of one name
Renamed(col, old, new) == IF lower(col) = lower(old) THEN new ELSE col

\* the parts of rename_column's contract that C5 and its amendment share:
\* the column list, the primary-key set, every foreign key's local columns
\* and every self-referential foreign key's target columns
RenamedOutsideIndexes(B, T, old, new) ==
    /\ Len(T.columns) = Len(B.columns)
    /\ \A i \in 1..Len(B.columns) :
          T.columns[i].name = Renamed(B.columns[i].name, old, new)
    /\ T.primary_key = {Renamed(col, old, new) : col \in B.primary_key}
    /\ Len(T.foreign_keys) = Len(B.foreign_keys)
    /\ \A i \in FkPositions(B) :
          LET b == B.foreign_keys[i]
              t == T.foreign_keys[i]
          IN /\ Len(t.columns) = Len(b.columns)
             /\ \A j \in 1..Len(b.columns) :
                   t.columns[j] = Renamed(b.columns[j], old, new)
             /\ b.ref_table = B.name =>
                   /\ Len(t.ref_columns) = Len(b.ref_columns)
                   /\ \A j \in 1..Len(b.ref_columns) :
                         t.ref_columns[j] = Renamed(b.ref_columns[j], old, new)

\* C5 as stated: after rename_column(old, new) every occurrence of old is
\* replaced by new in the column list, the primary-key set, the local columns
\* of every foreign key, the target columns of every self-referential foreign
\* key and every index that covers the column, and no occurrence of old
\* remains in any of them.
C5_AsStated ==
    last.op = "rename_column" =>
        LET B == before[last.table]
            T == schema[last.table]
        IN /\ RenamedOutsideIndexes(B, T, last.name, last.new)
           /\ Len(T.indexes) = Len(B.indexes)
           /\ \A i \in IndexPositions(B) :
                 /\ Len(T.indexes[i].column_names) = Len(B.indexes[i].column_names)
                 /\ \A j \in 1..Len(B.indexes[i].column_names) :
                       T.indexes[i].column_names[j] =
                           Renamed(B.indexes[i].column_names[j], last.name, last.new)
           /\ last.name \notin
                 ColumnNamesOf(T) \cup T.primary_key \cup LocalFkColumns(T)
                 \cup SelfFkTargets(T) \cup CoveredColumns(T)

\* C5 amended: as stated outside the indexes; in every index whose
\* column_names is aligned with its columns, a covered name that matches old
\* becomes new lower-cased and the column shown at that position becomes new
\* upper-cased; and when new differs from old ignoring case, no name equal to
\* old ignoring case remains in any of them.
C5_RenameColumnCascades ==
    last.op = "rename_column" =>
        LET B == before[last.table]
            T == schema[last.table]
            old == lower(last.name)
        IN /\ RenamedOutsideIndexes(B, T, last.name, last.new)
           /\ Len(T.indexes) = Len(B.indexes)
           /\ \A i \in IndexPositions(B) :
                 LET b == B.indexes[i]
                     t == T.indexes[i]
                 IN Aligned(b) =>
                      /\ Len(t.column_names) = Len(b.column_names)
                      /\ Len(t.columns) = Len(b.columns)
                      /\ \A j \in 1..Len(b.column_names) :
                            IF lower(b.column_names[j]) = old
                            THEN /\ t.column_names[j] = lower(last.new)
                                 /\ t.columns[j] = upper(last.new)
                            ELSE /\ t.column_names[j] = b.column_names[j]
                                 /\ t.columns[j] = b.columns[j]
           /\ (lower(last.new) # old /\ \A i \in IndexPositions(B) : Aligned(B.indexes[i])) =>
                 old \notin LowerSet(
                     ColumnNamesOf(T) \cup T.primary_key \cup LocalFkColumns(T)
                     \cup SelfFkTargets(T) \cup CoveredColumns(T))

\* C5 witness: the renamed column was a column, a primary-key member, a local
\* foreign-key column, a self-referential target and an indexed column, and
\* the new name has an upper-case letter.
C5_Witness ==
    /\ last.op = "rename_column"
    /\ last.new # lower(last.new)
    /\ lower(last.new) # lower(last.name)
    /\ LET B == before[last.table]
           old == lower(last.name)
       IN /\ old \in LowerSet(ColumnNamesOf(B))
          /\ old \in LowerSet(B.primary_key)
          /\ old \in LowerSet(LocalFkColumns(B))
          /\ old \in LowerSet(SelfFkTargets(B))
          /\ old \in LowerSet(CoveredColumns(B))

\* whether a name occurs anywhere in a table: as a column, in the primary-key
\* set, in a foreign key's column lists, or in an index
Occurs(T, name) ==
    lower(name) \in LowerSet(
        ColumnNamesOf(T) \cup T.primary_key \cup LocalFkColumns(T)
        \cup UNION {Elems(T.foreign_keys[i].ref_columns) : i \in FkPositions(T)}
        \cup UNION {Elems(T.indexes[i].column_names) : i \in IndexPositions(T)}
        \cup UNION {Elems(T.indexes[i].columns) : i \in IndexPositions(T)})

HasIndexNamed(T, name) ==
    \E i \in IndexPositions(T) : lower(T.indexes[i].name) = lower(name)

\* the calls whose target is a constraint, an index or a table, made with a
\* name that is not there, change nothing
AbsentTargetIsNoOp ==
    /\ (/\ last.op \in {"drop_constraint", "rename_constraint"}
        /\ lower(last.name) \notin DOMAIN before[last.table].constraint_types)
          => schema = before
    /\ (/\ last.op \in {"drop_index", "rename_index"}
        /\ ~HasIndexNamed(before[last.table], last.name))
          => schema = before
    /\ (last.op = "rename_table" /\ last.name \notin DOMAIN before)
          => schema = before
    /\ (last.op = "rename_column_in_schema" /\ last.table \notin DOMAIN before)
          => schema = before

\* C8 as stated: every mutation called with a name the table (or, for the
\* two Schema helpers, the Schema) does not have leaves the whole Schema
\* unchanged; for drop_column and rename_column the name is a column name.
C8_AsStated ==
    /\ AbsentTargetIsNoOp
    /\ (/\ last.op \in {"drop_column", "rename_column"}
        /\ get_column(before[last.table], last.name) = 0)
          => schema = before

\* C8 amended: drop_column and rename_column leave the Schema unchanged when
\* the name occurs nowhere in the table (no column, primary-key member,
\* foreign-key column or index column of that name), except that drop_column
\* still clears a primary_key_name that constraint_types does not hold; the
\* other calls are no-ops on an absent target, as stated.
C8_AbsentTargetIsNoOp ==
    /\ AbsentTargetIsNoOp
    /\ (last.op = "rename_column" /\ ~Occurs(before[last.table], last.name))
          => schema = before
    /\ (last.op = "drop_column" /\ ~Occurs(before[last.table], last.name))
          => LET B == before[last.table]
             IN schema = [before EXCEPT ![last.table].primary_key_name =
                            IF @ \in DOMAIN B.constraint_types THEN @ ELSE None]

\* C8 witness: drop_index was called with a name no index has while a
\* constraint of that name is recorded, on a table that has indexes.
C8_Witness ==
    /\ last.op = "drop_index"
    /\ ~HasIndexNamed(before[last.table], last.name)
    /\ lower(last.name) \in DOMAIN before[last.table].constraint_types
    /\ before[last.table].indexes # <<>>

(***************************************************************************)
(* SpecSchema: a client of the two helpers on a whole Schema.  The Schema  *)
(* starts with table u, whose foreign keys point at t and at u itself, and *)
(* with or without table t, all built with the API.                        *)
(***************************************************************************)
TableV == <<"v">>

NewTable(name) ==
    /\ name \notin DOMAIN schema
    /\ Api(Call("new_table", name, None, None, None),
           DictPut(schema, name, Table(name, NewOid(schema))))

\* table u: columns a and b, a foreign key to t(ref) and one to u(a)
SeedReferrer(ref) ==
    LET T0 == Table(TableU, 2)
        T1 == add_column(add_column(T0, Column(ColA, TypeInt, FALSE, TRUE)),
                         Column(ColB, TypeInt, TRUE, FALSE))
        T2 == add_foreign_key(T1, ForeignKey(<<ColB>>, TableT, ref, None), NameFk)
    IN add_foreign_key(T2, ForeignKey(<<ColA>>, TableU, <<ColA>>, None), None)

ReferenceInputs == {<<ColA>>, << <<"A">> >>, <<ColB, ColA>>}

SeedSchemas ==
    {[k \in {TableU} |-> SeedReferrer(ref)] : ref \in ReferenceInputs}
    \cup {[k \in {TableT, TableU} |->
             IF k = TableT THEN SeedTable(TRUE, TRUE, FALSE) ELSE SeedReferrer(ref)] :
          ref \in ReferenceInputs}

InitSchema ==
    /\ schema \in SeedSchemas
    /\ before = schema
    /\ last = Call("init", None, None, None, None)
    /\ steps = 0
    /\ InitLoader

AllTableNames == {TableT, TableU, TableV}

NextSchema ==
    \/ \E name \in AllTableNames : NewTable(name)
    \/ \E k \in DOMAIN schema, target \in AllTableNames :
          AddForeignKey(k, ForeignKey(<<ColA>>, target, <<ColA>>, None), None)
    \/ \E old \in AllTableNames, new \in AllTableNames : RenameTable(old, new)
    \/ \E k \in AllTableNames, old \in {ColA, <<"B">>}, new \in NewColumnNames :
          RenameColumnInSchema(k, old, new)

SpecSchema == InitSchema /\ [][NextSchema]_vars

\* the table that schema[k] was before the last call, a rename_table
TableBeforeRename(k) == IF k = last.new THEN before[last.name] ELSE before[k]

\* C3 as stated: after rename_table(schema, old, new) on a schema that
\* contains old, the table is under key new and not under old, every foreign
\* key whose target was old targets new, and no foreign key has ref_table
\* equal to old.
C3_AsStated ==
    (last.op = "rename_table" /\ last.name \in DOMAIN before) =>
        /\ last.new \in DOMAIN schema
        /\ schema[last.new].oid = before[last.name].oid
        /\ last.name \notin DOMAIN schema
        /\ \A k \in DOMAIN schema :
              /\ Len(schema[k].foreign_keys) = Len(TableBeforeRename(k).foreign_keys)
              /\ \A i \in FkPositions(schema[k]) :
                    /\ TableBeforeRename(k).foreign_keys[i].ref_table = last.name
                          => schema[k].foreign_keys[i].ref_table = last.new
                    /\ schema[k].foreign_keys[i].ref_table # last.name

\* C3 amended: after rename_table(schema, old, new) on a schema that contains
\* old, the table is under key new, every foreign key whose target was old
\* targets new and the other foreign keys keep their target; and when new
\* differs from old, the table is not under old and no foreign key has
\* ref_table equal to old.
C3_RenameTableRetargets ==
    (last.op = "rename_table" /\ last.name \in DOMAIN before) =>
        /\ last.new \in DOMAIN schema
        /\ schema[last.new].oid = before[last.name].oid
        /\ last.new # last.name => last.name \notin DOMAIN schema
        /\ \A k \in DOMAIN schema :
              /\ Len(schema[k].foreign_keys) = Len(TableBeforeRename(k).foreign_keys)
              /\ \A i \in FkPositions(schema[k]) :
                    /\ schema[k].foreign_keys[i].ref_table =
                          IF TableBeforeRename(k).foreign_keys[i].ref_table = last.name
                          THEN last.new
                          ELSE TableBeforeRename(k).foreign_keys[i].ref_table
                    /\ last.new # last.name =>
                          schema[k].foreign_keys[i].ref_table # last.name

\* C3 witness: a table other tables and the table itself refer to was renamed
\* to a new name, and a foreign key of another table now targets that name.
C3_Witness ==
    /\ last.op = "rename_table"
    /\ last.name \in DOMAIN before
    /\ last.new # last.name
    /\ \E k \in DOMAIN schema \ {last.new} : \E i \in FkPositions(schema[k]) :
          /\ before[k].foreign_keys[i].ref_table = last.name
          /\ schema[k].foreign_keys[i].ref_table = last.new
    /\ \E i \in FkPositions(schema[last.new]) :
          before[last.name].foreign_keys[i].ref_table = last.name

\* C4 as stated: after rename_column_in_schema(schema, T, old, new) every
\* foreign key on another table that targets T has its target column old
\* replaced by new, the foreign keys that target another table than T are
\* unchanged, and no foreign key that targets T names old as a target column.
C4_AsStated ==
    last.op = "rename_column_in_schema" =>
        \A k \in DOMAIN schema :
            /\ Len(schema[k].foreign_keys) = Len(before[k].foreign_keys)
            /\ \A i \in FkPositions(schema[k]) :
                  LET b == before[k].foreign_keys[i]
                      t == schema[k].foreign_keys[i]
                  IN /\ (k # last.table /\ b.ref_table = last.table) =>
                          /\ Len(t.ref_columns) = Len(b.ref_columns)
                          /\ \A j \in 1..Len(b.ref_columns) :
                                b.ref_columns[j] = last.name
                                    => t.ref_columns[j] = last.new
                     /\ b.ref_table # last.table => t = b
                     /\ t.ref_table = last.table =>
                          last.name \notin Elems(t.ref_columns)

\* C4 amended: after rename_column_in_schema(schema, T, old, new) on a schema
\* that contains T, every foreign key on another table that targets T has
\* each target column equal to old (ignoring case) replaced by new and is
\* otherwise unchanged; a foreign key that targets another table than T keeps
\* its target table, target columns and name, and is wholly unchanged when it
\* is on another table than T; and when new differs from old, no foreign key
\* that targets T names old as a target column.
C4_RenameColumnInSchemaFixesTargets ==
    (last.op = "rename_column_in_schema" /\ last.table \in DOMAIN before) =>
        \A k \in DOMAIN schema :
            /\ Len(schema[k].foreign_keys) = Len(before[k].foreign_keys)
            /\ \A i \in FkPositions(schema[k]) :
                  LET b == before[k].foreign_keys[i]
                      t == schema[k].foreign_keys[i]
                  IN /\ (k # last.table /\ b.ref_table = last.table) =>
                          /\ Len(t.ref_columns) = Len(b.ref_columns)
                          /\ \A j \in 1..Len(b.ref_columns) :
                                t.ref_columns[j] =
                                    Renamed(b.ref_columns[j], last.name, last.new)
                          /\ t.columns = b.columns
                          /\ t.ref_table = b.ref_table
                          /\ t.name = b.name
                     /\ b.ref_table # last.table =>
                          /\ t.ref_table = b.ref_table
                          /\ t.ref_columns = b.ref_columns
                          /\ t.name = b.name
                          /\ k # last.table => t = b
                     /\ (last.new # last.name /\ t.ref_table = last.table) =>
                          last.name \notin Elems(t.ref_columns)

\* C4 witness: a column of t was renamed to another name; a foreign key of u
\* named it as a target column in another case and now names the new one, and
\* a foreign key of t itself to another table had it as a local column.
C4_Witness ==
    /\ last.op = "rename_column_in_schema"
    /\ last.table \in DOMAIN before
    /\ lower(last.new) # lower(last.name)
    /\ \E k \in DOMAIN schema \ {last.table} : \E i \in FkPositions(schema[k]) :
          /\ before[k].foreign_keys[i].ref_table = last.table
          /\ \E j \in 1..Len(before[k].foreign_keys[i].ref_columns) :
                /\ before[k].foreign_keys[i].ref_columns[j] # last.name
                /\ lower(before[k].foreign_keys[i].ref_columns[j]) = lower(last.name)
                /\ schema[k].foreign_keys[i].ref_columns[j] = last.new
    /\ \E i \in FkPositions(before[last.table]) :
          /\ before[last.table].foreign_keys[i].ref_table # last.table
          /\ last.name \in Elems(before[last.table].foreign_keys[i].columns)

(***************************************************************************)
(* The parser as a state machine.  A parse works through queue, the        *)
(* matches still to be handled, one match per step: every CREATE of a      *)
(* text, then every ALTER of it (parse_schema_from_sql), text after text   *)
(* when the loader runs (load_schema_from_migrations).                     *)
(***************************************************************************)
\* the matches of one text, each with the path of its file
Tagged(path, text) == [i \in 1..Len(Matches(text)) |-> [path |-> path, stmt |-> Matches(text)[i]]]

\* the matches of the files at paths, in that order
RECURSIVE Pending(_, _)
Pending(paths, fs) ==
    IF paths = <<>> THEN <<>>
    ELSE Tagged(Head(paths), fs[Head(paths)]) \o Pending(Tail(paths), fs)

Parsing(call, s) ==
    /\ pc \in {"parsing", "loading"}
    /\ queue # <<>>
    /\ before' = schema
    /\ last' = call
    /\ schema' = s
    /\ queue' = Tail(queue)
    /\ UNCHANGED <<steps, pc, files, listing, result>>

ParseCreateTable ==
    /\ queue # <<>>
    /\ Head(queue).stmt.kind = "create"
    /\ Parsing(Call("parse_create_table", normalize_identifier(Head(queue).stmt.name),
                    Head(queue).path, None, Head(queue).stmt),
               parse_create_table(Head(queue).stmt, schema))

ParseAlterTable ==
    /\ queue # <<>>
    /\ Head(queue).stmt.kind = "alter"
    /\ Parsing(Call("parse_alter_table", normalize_identifier(Head(queue).stmt.table),
                    Head(queue).path, None, Head(queue).stmt),
               parse_alter_table(Head(queue).stmt, schema))

\* parse_schema_from_sql(text, schema) is called
BeginParse(text) ==
    /\ pc = "idle"
    /\ steps < MaxSteps
    /\ steps' = steps + 1
    /\ queue' = Tagged(None, text)
    /\ pc' = "parsing"
    /\ before' = schema
    /\ last' = Call("parse_schema_from_sql", None, None, None, text)
    /\ UNCHANGED <<schema, files, listing, result>>

\* parse_schema_from_sql returns
EndParse ==
    /\ pc = "parsing"
    /\ queue = <<>>
    /\ pc' = "idle"
    /\ UNCHANGED <<schema, before, last, steps, files, listing, queue, result>>

\* the orders in which glob may list a set of paths
Listings(paths) ==
    {l \in [1..Cardinality(paths) -> paths] :
        \A i, j \in 1..Cardinality(paths) : i # j => l[i] # l[j]}

\* load_schema_from_migrations lists the files and sorts the list
Glob ==
    /\ pc = "start"
    /\ \E l \in Listings(DOMAIN files) :
          /\ listing' = l
          /\ queue' = Pending(sorted_glob(l), files)
    /\ pc' = "loading"
    /\ UNCHANGED <<schema, before, last, steps, files, result>>

\* every file is parsed: the primary-key flags are resynchronized
FinishLoad ==
    /\ pc = "loading"
    /\ queue = <<>>
    /\ schema' = SyncAll(schema)
    /\ before' = schema
    /\ last' = Call("load_schema_from_migrations", None, None, None, None)
    /\ pc' = "loaded"
    /\ UNCHANGED <<steps, files, listing, queue, result>>

(***************************************************************************)
(* The migration texts the parser is run on                                *)
(***************************************************************************)
TypeText == <<"T","E","X","T">>

\* CREATE TABLE t (a INT PRIMARY KEY, b INT NOT NULL REFERENCES u(a));
CreateT1 ==
    CreateStatement(<<"t">>,
        <<ColumnItem(<<"a">>, TypeInt, FALSE, TRUE, None),
          ColumnItem(<<"b">>, TypeInt, TRUE, FALSE,
                     Reference(None, <<"u">>, << <<"a">> >>))>>)

\* CREATE TABLE T (c TEXT, "B" INT, PRIMARY KEY (c, "B"),
\*                 CONSTRAINT fk FOREIGN KEY (c) REFERENCES u (a));
CreateT2 ==
    CreateStatement(<<"T">>,
        <<ColumnItem(<<"c">>, TypeText, FALSE, FALSE, None),
          ColumnItem(<<"\"", "B", "\"">>, TypeInt, FALSE, FALSE, None),
          ConstraintItem(<< <<"c">>, <<" ", "\"", "B", "\"">> >>, None),
          ConstraintItem(None, Reference(<< <<"c">> >>, <<"u">>, << <<"a">> >>))>>)

\* CREATE TABLE u (a INT PRIMARY KEY);
CreateU ==
    CreateStatement(<<"u">>, <<ColumnItem(<<"a">>, TypeInt, FALSE, TRUE, None)>>)

\* ALTER TABLE t ADD CONSTRAINT fk FOREIGN KEY (b) REFERENCES u (a)
AlterT == AlterStatement(<<"t">>, << <<"b">> >>, <<"u">>, << <<"a">> >>)

\* ALTER TABLE v ADD CONSTRAINT fk FOREIGN KEY (a) REFERENCES T (A)
AlterV == AlterStatement(<<"v">>, << <<"a">> >>, <<"T">>, << <<"A">> >>)

\* CREATE TABLE w (Check_in INT PRIMARY KEY REFERENCES u(a), ID INT NOT NULL,
\*                 CONSTRAINT pk PRIMARY KEY (id));
CreateW ==
    CreateStatement(<<"w">>,
        <<ColumnItem(<<"C","h","e","c","k","_","i","n">>, TypeInt, FALSE, TRUE,
                     Reference(None, <<"u">>, << <<"a">> >>)),
          ColumnItem(<<"I", "D">>, TypeInt, TRUE, FALSE, None),
          ConstraintItem(<< <<"i", "d">> >>, None)>>)

Texts ==
    {<<CreateT1>>, <<CreateT2>>, <<AlterT, CreateT1>>, <<CreateU, AlterV>>,
     <<CreateT1, CreateU, CreateT2>>, <<CreateW>>}

(***************************************************************************)
(* SpecParse: a client that calls parse_schema_from_sql on a Schema it     *)
(* also mutates through the API between the calls.                         *)
(***************************************************************************)
InitParse ==
    /\ schema \in {EmptyDict} \cup {[k \in {TableT} |-> T] : T \in SeedTables}
    /\ before = schema
    /\ last = Call("init", None, None, None, None)
    /\ steps = 0
    /\ InitLoader

NextParse ==
    \/ \E text \in Texts : BeginParse(text)
    \/ ParseCreateTable
    \/ ParseAlterTable
    \/ EndParse
    \/ \E k \in DOMAIN schema : AddIndex(k, IndexB, NameUq, "unique")
    \/ \E k \in DOMAIN schema : SetPrimaryKey(k, {ColB}, NamePk)
    \/ \E k \in DOMAIN schema : AddForeignKey(k, FkOut, NameFk)

SpecParse == InitParse /\ [][NextParse]_vars

(***************************************************************************)
(* SpecLoad: load_schema_from_migrations on a directory of up to MaxFiles  *)
(* migration files, which glob lists in any order.                         *)
(***************************************************************************)
MaxFiles == 2

Paths == {<<"1">>, <<"1", "0">>, <<"2">>}

Directories ==
    UNION {[d -> Texts] : d \in {x \in SUBSET Paths : Cardinality(x) <= MaxFiles}}

InitLoad ==
    /\ schema = EmptyDict
    /\ before = schema
    /\ last = Call("init", None, None, None, None)
    /\ steps = 0
    /\ pc = "start"
    /\ files \in Directories
    /\ listing = <<>>
    /\ queue = <<>>
    /\ result = None

NextLoad ==
    \/ Glob
    \/ ParseCreateTable
    \/ ParseAlterTable
    \/ FinishLoad

SpecLoad == InitLoad /\ [][NextLoad]_vars

(***************************************************************************)
(* What a CREATE TABLE body declares, read off the statement               *)
(***************************************************************************)
\* the items that are column definitions: those that do not begin with
\* CONSTRAINT, PRIMARY, FOREIGN, UNIQUE or CHECK in any case
ColumnItems(stmt) ==
    LET IsColumn(item) ==
            /\ item.kind = "column"
            /\ \A keyword \in ConstraintKeywords :
                  \/ Len(item.raw_name) < Len(keyword)
                  \/ \E i \in 1..Len(keyword) : UpperChar(item.raw_name[i]) # keyword[i]
    IN SelectSeq(stmt.items, IsColumn)

ConstraintItems(stmt) ==
    LET IsConstraint(item) == item.kind = "constraint"
    IN SelectSeq(stmt.items, IsConstraint)

BodyColumns(stmt) ==
    [i \in 1..Len(ColumnItems(stmt)) |->
        [name |-> normalize_identifier(ColumnItems(stmt)[i].raw_name),
         data_type |-> ColumnItems(stmt)[i].data_type,
         nullable |-> ~ColumnItems(stmt)[i].not_null,
         is_primary_key |-> ColumnItems(stmt)[i].primary_key]]

BodyPrimaryKey(stmt) ==
    {normalize_identifier(ColumnItems(stmt)[i].raw_name) :
        i \in {j \in 1..Len(ColumnItems(stmt)) : ColumnItems(stmt)[j].primary_key}}
    \cup UNION {Elems(split_identifier_list(ConstraintItems(stmt)[i].pk_cols)) :
                  i \in {j \in 1..Len(ConstraintItems(stmt)) :
                            ConstraintItems(stmt)[j].pk_cols # None}}

\* the inline REFERENCES of the columns, then the FOREIGN KEY constraints
BodyForeignKeys(stmt) ==
    LET HasInline(item) ==
            /\ item.kind = "column"
            /\ item.references # None
            /\ \E i \in 1..Len(ColumnItems(stmt)) : ColumnItems(stmt)[i] = item
        HasForeign(item) == item.kind = "constraint" /\ item.foreign_key # None
        inline == SelectSeq(stmt.items, HasInline)
        foreign == SelectSeq(stmt.items, HasForeign)
    IN [i \in 1..Len(inline) |->
           [columns |-> <<normalize_identifier(inline[i].raw_name)>>,
            ref_table |-> normalize_identifier(inline[i].references.ref_table),
            ref_columns |-> split_identifier_list(inline[i].references.ref),
            name |-> None]]
       \o [i \in 1..Len(foreign) |->
           [columns |-> split_identifier_list(foreign[i].foreign_key.src),
            ref_table |-> normalize_identifier(foreign[i].foreign_key.ref_table),
            ref_columns |-> split_identifier_list(foreign[i].foreign_key.ref),
            name |-> None]]

\* C9: a CREATE TABLE for a name already in the Schema keeps the Table
\* object that the Schema holds under that name; its columns, primary-key
\* set and foreign keys become exactly those of the new body, and its
\* indexes, constraint_types (and primary_key_name) stay as they were.
C9_RecreateKeepsIndexesAndConstraints ==
    (last.op = "parse_create_table" /\ last.table \in DOMAIN before) =>
        /\ DOMAIN schema = DOMAIN before
        /\ \A k \in DOMAIN before \ {last.table} : schema[k] = before[k]
        /\ schema[last.table].oid = before[last.table].oid
        /\ schema[last.table].name = before[last.table].name
        /\ schema[last.table].columns = BodyColumns(last.arg)
        /\ schema[last.table].primary_key = BodyPrimaryKey(last.arg)
        /\ schema[last.table].foreign_keys = BodyForeignKeys(last.arg)
        /\ schema[last.table].indexes = before[last.table].indexes
        /\ schema[last.table].constraint_types = before[last.table].constraint_types
        /\ schema[last.table].primary_key_name = before[last.table].primary_key_name

\* a table with an index, a registered constraint, a primary key and foreign
\* keys is created again with a different body
C9_Witness ==
    /\ last.op = "parse_create_table"
    /\ last.table \in DOMAIN before
    /\ before[last.table].indexes # <<>>
    /\ DOMAIN before[last.table].constraint_types # {}
    /\ before[last.table].foreign_keys # <<>>
    /\ before[last.table].primary_key # {}
    /\ before[last.table].columns # schema[last.table].columns
    /\ before[last.table].primary_key # schema[last.table].primary_key
    /\ before[last.table].foreign_keys # schema[last.table].foreign_keys
    /\ schema[last.table].indexes # <<>>

\* C2: no table of a reachable Schema holds two foreign keys with the same
\* local columns, the same target table and the same target columns.
C2_NoDuplicateForeignKeys ==
    \A k \in DOMAIN schema :
        \A i, j \in 1..Len(schema[k].foreign_keys) :
            (/\ schema[k].foreign_keys[i].columns = schema[k].foreign_keys[j].columns
             /\ schema[k].foreign_keys[i].ref_table = schema[k].foreign_keys[j].ref_table
             /\ schema[k].foreign_keys[i].ref_columns = schema[k].foreign_keys[j].ref_columns)
            => i = j

(***************************************************************************)
(* What load_schema_from_migrations must return, read off the files        *)
(***************************************************************************)
Creates(text, name) ==
    {i \in 1..Len(text) :
        text[i].kind = "create" /\ normalize_identifier(text[i].name) = name}

CreatedNames ==
    UNION {{normalize_identifier(files[p][i].name) :
               i \in {j \in 1..Len(files[p]) : files[p][j].kind = "create"}} :
           p \in DOMAIN files}

\* the last CREATE of name, in the file whose path is the greatest
LastCreate(name) ==
    LET creating == {p \in DOMAIN files : Creates(files[p], name) # {}}
        greatest == CHOOSE p \in creating : \A q \in creating : q = p \/ StrLess(q, p)
        i == CHOOSE m \in Creates(files[greatest], name) :
                \A n \in Creates(files[greatest], name) : n <= m
    IN files[greatest][i]

\* a < b or a = b for two paths
PathLeq(a, b) == a = b \/ StrLess(a, b)

\* C10: the files are worked through in ascending order of their paths
\* whatever order they were listed in, and when the load has returned,
\* every created table has the columns and the primary key of the last
\* CREATE of its name in the file with the greatest path that creates it.
C10_LastFileInSortedOrderWins ==
    /\ pc = "loading" =>
          /\ \A i, j \in 1..Len(queue) : i < j => PathLeq(queue[i].path, queue[j].path)
          /\ last.op \in {"parse_create_table", "parse_alter_table"} =>
                \A i \in 1..Len(queue) : PathLeq(last.name, queue[i].path)
          /\ last.op = "init" =>
                /\ {queue[i].path : i \in 1..Len(queue)} =
                       {p \in DOMAIN files : files[p] # <<>>}
                /\ \A p \in DOMAIN files :
                      LET At(m) == m.path = p
                      IN Len(SelectSeq(queue, At)) = Len(files[p])
    /\ pc = "loaded" =>
          /\ CreatedNames \subseteq DOMAIN schema
          /\ \A name \in CreatedNames :
                /\ schema[name].primary_key = BodyPrimaryKey(LastCreate(name))
                /\ schema[name].columns =
                      [i \in 1..Len(BodyColumns(LastCreate(name))) |->
                          [BodyColumns(LastCreate(name))[i] EXCEPT
                              !.is_primary_key =
                                  lower(BodyColumns(LastCreate(name))[i].name)
                                  \in LowerSet(BodyPrimaryKey(LastCreate(name)))]]

\* two files give table t different bodies, the file system listed the file
\* that sorts last ("2" after "10") first, and the load has returned
C10_Witness ==
    /\ pc = "loaded"
    /\ DOMAIN files = {<<"1", "0">>, <<"2">>}
    /\ listing = << <<"2">>, <<"1", "0">> >>
    /\ Creates(files[<<"1", "0">>], TableT) # {}
    /\ Creates(files[<<"2">>], TableT) # {}
    /\ files[<<"1", "0">>] = <<CreateT2>>
    /\ files[<<"2">>] = <<AlterT, CreateT1>>
    /\ schema[TableT].columns = <<Column(ColA, TypeInt, TRUE, TRUE),
                                  Column(ColB, TypeInt, FALSE, FALSE)>>
    /\ schema[TableT].primary_key = {ColA}

\* C11: after an ALTER TABLE ... ADD CONSTRAINT ... FOREIGN KEY statement is
\* parsed, the foreign key is the last one of the altered table, and both
\* the altered table and the referenced table are in the Schema, each an
\* empty stub if it was not there before.
C11_AlterCreatesBothTables ==
    last.op = "parse_alter_table" =>
        LET source == last.table
            target == normalize_identifier(last.arg.ref_table)
            Stub(T) == /\ T.columns = <<>>
                       /\ T.primary_key = {}
                       /\ T.indexes = <<>>
        IN /\ source \in DOMAIN schema
           /\ schema[source].foreign_keys # <<>>
           /\ schema[source].foreign_keys[Len(schema[source].foreign_keys)].ref_table = target
           /\ source \notin DOMAIN before =>
                 Stub(schema[source]) /\ Len(schema[source].foreign_keys) = 1
           /\ target \in DOMAIN schema
           /\ target \notin DOMAIN before \cup {source} =>
                 Stub(schema[target]) /\ schema[target].foreign_keys = <<>>

(***************************************************************************)
(* SpecSplit: split_top_level_commas called on every text of up to MaxLen  *)
(* characters over SplitChars, and on the text a(1,2), b.                  *)
(***************************************************************************)
MaxLen == 5

SplitChars == {"a", "(", ")", ",", " "}

SplitExample == <<"a", "(", "1", ",", "2", ")", ",", " ", "b">>

SplitInputs ==
    UNION {[1..n -> SplitChars] : n \in 0..MaxLen} \cup {SplitExample}

\* one call per behaviour: the function has no state
SplitTopLevelCommas(text) ==
    /\ pc = "idle"
    /\ steps = 0
    /\ steps' = 1
    /\ last' = Call("split_top_level_commas", None, None, None, text)
    /\ result' = split_top_level_commas(text)
    /\ UNCHANGED <<schema, before, pc, files, listing, queue>>

InitSplit ==
    /\ schema = EmptyDict
    /\ before = schema
    /\ last = Call("init", None, None, None, None)
    /\ steps = 0
    /\ InitLoader

NextSplit == \E text \in SplitInputs : SplitTopLevelCommas(text)

SpecSplit == InitSplit /\ [][NextSplit]_vars

\* '(' seen minus ')' seen in text[1..i]
Depth(text, i) ==
    Cardinality({j \in 1..i : text[j] = "("}) - Cardinality({j \in 1..i : text[j] = ")"})

WellParenthesized(text) ==
    /\ \A i \in 1..Len(text) : Depth(text, i) >= 0
    /\ Depth(text, Len(text)) = 0

\* the depth after text[i] when a ')' at depth 0 leaves the depth at 0
ClampedDepth(text, i) ==
    LET reached == {0} \cup {Depth(text, j) : j \in 1..i}
    IN Depth(text, i) - CHOOSE m \in reached : \A n \in reached : m <= n

\* the commas at depth 0
TopLevelCommas(text) ==
    {i \in 1..Len(text) : text[i] = "," /\ ClampedDepth(text, i) = 0}

\* the stretches of text between the commas at depth 0, in text order
Stretches(text) ==
    LET ends == TopLevelCommas(text) \cup {Len(text) + 1}
        EndOf(r) == CHOOSE e \in ends : Cardinality({x \in ends : x < e}) = r - 1
        StartOf(r) == IF r = 1 THEN 1 ELSE EndOf(r - 1) + 1
    IN [r \in 1..Cardinality(ends) |-> SubSeq(text, StartOf(r), EndOf(r) - 1)]

\* C12: split_top_level_commas ends an item only at a comma at depth 0, the
\* depth going up on '(' and down on ')' but never below zero: the items are
\* the stretches between those commas, trimmed, the blank ones left out, in
\* input order; every item is non-empty and trimmed; and for a
\* well-parenthesized input every item is itself well-parenthesized, so no
\* item ends inside a pair of parentheses.
C12_SplitsOnlyAtDepthZero ==
    last.op = "split_top_level_commas" =>
        LET text == last.arg
            NonBlank(part) == strip(part) # <<>>
            kept == SelectSeq(Stretches(text), NonBlank)
        IN /\ result = [i \in 1..Len(kept) |-> strip(kept[i])]
           /\ \A i \in 1..Len(result) :
                 /\ result[i] # <<>>
                 /\ Head(result[i]) \notin Whitespace
                 /\ result[i][Len(result[i])] \notin Whitespace
                 /\ WellParenthesized(text) => WellParenthesized(result[i])

\* 'a(1,2), b' yields ['a(1,2)', 'b']
C12_Witness ==
    /\ last.op = "split_top_level_commas"
    /\ last.arg = SplitExample
    /\ WellParenthesized(last.arg)
    /\ result = << <<"a", "(", "1", ",", "2", ")">>, <<"b">> >>

\* C13: after load_schema_from_migrations, a created table's columns are the
\* column definitions of its CREATE TABLE body in declaration order (name,
\* type and nullability as declared), its primary-key set is exactly the
\* columns declared with an inline PRIMARY KEY plus those listed in a
\* table-level PRIMARY KEY (...) item, and is_primary_key is true for
\* exactly the columns in that set.
C13_ColumnsAndPrimaryKeyOfBody ==
    pc = "loaded" =>
        \A name \in CreatedNames :
            LET stmt == LastCreate(name)
                T == schema[name]
                declared == ColumnItems(stmt)
                inline == {normalize_identifier(declared[i].raw_name) :
                              i \in {j \in 1..Len(declared) : declared[j].primary_key}}
                listed == UNION {Elems(split_identifier_list(stmt.items[i].pk_cols)) :
                                   i \in {j \in 1..Len(stmt.items) :
                                             /\ stmt.items[j].kind = "constraint"
                                             /\ stmt.items[j].pk_cols # None}}
            IN /\ Len(T.columns) = Len(declared)
               /\ \A i \in 1..Len(declared) :
                     /\ T.columns[i].name = normalize_identifier(declared[i].raw_name)
                     /\ T.columns[i].data_type = declared[i].data_type
                     /\ T.columns[i].nullable = ~declared[i].not_null
                     /\ T.columns[i].is_primary_key <=> T.columns[i].name \in inline \cup listed
               /\ T.primary_key = inline \cup listed

\* the load has returned a table whose primary key is declared by a
\* table-level PRIMARY KEY (...) item: its column was not flagged when the
\* body was parsed and is flagged now; and a table with an inline primary key
C13_Witness ==
    /\ pc = "loaded"
    /\ last.op = "load_schema_from_migrations"
    /\ TableT \in DOMAIN schema
    /\ <<"w">> \in DOMAIN schema
    /\ LastCreate(TableT) = CreateT1
    /\ schema[TableT].columns = <<Column(ColA, TypeInt, TRUE, TRUE),
                                  Column(ColB, TypeInt, FALSE, FALSE)>>
    /\ schema[TableT].primary_key = {ColA}
    /\ schema[<<"w">>].columns = <<Column(<<"i", "d">>, TypeInt, FALSE, TRUE)>>
    /\ ~before[<<"w">>].columns[1].is_primary_key
    /\ schema[<<"w">>].primary_key = {<<"i", "d">>}

(***************************************************************************)
(* layout.py: LayoutConfig, TableLayout and layout_tables.  The code's      *)
(* floats are float(int) of integer expressions: they are integers here.   *)
(***************************************************************************)
LayoutConfig(per_row, gap_x) ==
    [per_row |-> per_row, table_width |-> 290, row_height |-> 30,
     header_height |-> 30, padding_x |-> 80, padding_y |-> 40,
     gap_x |-> gap_x, gap_y |-> 60]

TableLayout(table, x, y, width, height) ==
    [table |-> table, x |-> x, y |-> y, width |-> width, height |-> height]

Max(a, b) == IF a >= b THEN a ELSE b

\* the height without the floor of one row
calculate_table_height_no_floor(table, config) ==
    config.header_height + Len(table.columns) * config.row_height

calculate_table_height(table, config) ==
    config.header_height + Max(1, Len(table.columns)) * config.row_height

\* the x of every table, whatever its place in the row
ColumnXFixed(config, col_index) == config.padding_x

\* the x of the table at col_index (from 0) of a row
ColumnX(config, col_index) ==
    config.padding_x + col_index * (config.table_width + config.gap_x)

\* the passes of layout_tables' loop over the rows, from the row that starts
\* with the first of table_names
RECURSIVE LayoutRows(_, _, _, _)
LayoutRows(table_names, s, config, current_y) ==
    IF table_names = <<>> THEN <<>>
    ELSE LET per_row == Max(1, config.per_row)
             row_tables == SubSeq(table_names, 1,
                                  IF per_row < Len(table_names)
                                  THEN per_row ELSE Len(table_names))
             heights == {calculate_table_height(s[row_tables[i]], config) :
                            i \in 1..Len(row_tables)}
             row_height == CHOOSE h \in heights : \A g \in heights : g <= h
         IN [i \in 1..Len(row_tables) |->
                TableLayout(s[row_tables[i]], ColumnX(config, i - 1), current_y,
                            config.table_width,
                            calculate_table_height(s[row_tables[i]], config))]
            \o LayoutRows(SubSeq(table_names, Len(row_tables) + 1, Len(table_names)),
                          s, config, current_y + row_height + config.gap_y)

\* sorted(schema.keys()), the keys taken in some order (here descending)
SortedKeys(s) ==
    sorted([i \in 1..Cardinality(DOMAIN s) |->
               CHOOSE k \in DOMAIN s :
                   Cardinality({j \in DOMAIN s : StrLess(k, j)}) = i - 1])

layout_tables(s, config) == LayoutRows(SortedKeys(s), s, config, config.padding_y)

(***************************************************************************)
(* SpecLayout: layout_tables called once on a Schema of up to MaxTables    *)
(* tables with 0 to 4 columns, with per_row up to MaxPerRow.               *)
(***************************************************************************)
MaxTables == 4
MaxPerRow == 3

LayoutNames == {TableT, TableU, TableV, <<"T">>, <<"t", "1">>}

\* a table of the layout schemas: as many columns as its place in LayoutNames
LayoutTable(name) ==
    LET count == Cardinality({n \in LayoutNames : StrLess(n, name)})
        T0 == Table(name, count + 1)
        names == <<ColA, ColB, ColC, <<"d">>>>
        RECURSIVE Fill(_, _)
        Fill(T, i) == IF i > count THEN T
                      ELSE Fill(add_column(T, Column(names[i], TypeInt, TRUE, FALSE)), i + 1)
    IN Fill(T0, 1)

LayoutSchemas ==
    {[k \in d |-> LayoutTable(k)] :
        d \in {x \in SUBSET LayoutNames : Cardinality(x) <= MaxTables}}

LayoutTables(config) ==
    /\ pc = "idle"
    /\ steps = 0
    /\ steps' = 1
    /\ last' = Call("layout_tables", None, None, None, config)
    /\ result' = layout_tables(schema, config)
    /\ UNCHANGED <<schema, before, pc, files, listing, queue>>

InitLayout ==
    /\ schema \in LayoutSchemas
    /\ before = schema
    /\ last = Call("init", None, None, None, None)
    /\ steps = 0
    /\ InitLoader

NextLayout ==
    \E per_row \in 0..MaxPerRow, gap_x \in {0, 60} :
        LayoutTables(LayoutConfig(per_row, gap_x))

SpecLayout == InitLayout /\ [][NextLayout]_vars

\* C14: for per_row >= 1, layout_tables returns exactly one geometry per
\* table, in ascending order of the table names; two tables in the same row
\* (the same y) have disjoint horizontal extents; and the number of distinct
\* rows is ceil(table_count / per_row).
C14_OneGeometryPerTableInRows ==
    (last.op = "layout_tables" /\ last.arg.per_row >= 1) =>
        LET count == Cardinality(DOMAIN schema)
        IN /\ Len(result) = count
           /\ \A i \in 1..Len(result) :
                 /\ result[i].table.name \in DOMAIN schema
                 /\ result[i].table = schema[result[i].table.name]
           /\ \A i, j \in 1..Len(result) :
                 i < j => StrLess(result[i].table.name, result[j].table.name)
           /\ \A i, j \in 1..Len(result) :
                 (i # j /\ result[i].y = result[j].y) =>
                     \/ result[i].x + result[i].width <= result[j].x
                     \/ result[j].x + result[j].width <= result[i].x
           /\ Cardinality({result[i].y : i \in 1..Len(result)}) * last.arg.per_row >= count
           /\ (Cardinality({result[i].y : i \in 1..Len(result)}) - 1) * last.arg.per_row < count
           /\ count = 0 => result = <<>>

\* four tables laid out two per row with no horizontal gap: two rows of two
\* tables, "T" before "t" before "t1"
C14_Witness ==
    /\ last.op = "layout_tables"
    /\ last.arg.per_row = 2
    /\ last.arg.gap_x = 0
    /\ DOMAIN schema = {<<"T">>, TableT, <<"t", "1">>, TableU}
    /\ Len(result) = 4
    /\ result[1].table.name = <<"T">>
    /\ result[2].table.name = TableT
    /\ result[1].y = result[2].y
    /\ result[2].x = result[1].x + result[1].width
    /\ result[3].y > result[1].y
    /\ result[4].y = result[3].y

(***************************************************************************)
(* drawio.py: IdGenerator and build_drawio.  The document is the sequence  *)
(* of mxCell elements appended to root after the two reserved cells; an    *)
(* element keeps, beside its id, parent, source and target, what it was    *)
(* made for.                                                               *)
(***************************************************************************)
DigitChars == <<"0", "1", "2", "3", "4", "5", "6", "7", "8", "9">>

\* str(n) for n >= 0
RECURSIVE Decimal(_)
Decimal(n) ==
    IF n < 10 THEN <<DigitChars[n + 1]>>
    ELSE Decimal(n \div 10) \o <<DigitChars[(n % 10) + 1]>>

\* IdGenerator(start=2)._value
IdStart == 2

\* the ids of the two cells build_drawio puts under root itself
RootIds == {<<"0">>, <<"1">>}

\* IdGenerator.next with the increment left out
NextValueStuck(value) == value

\* IdGenerator.next: self._value += 1
NextValue(value) == value + 1

\* IdGenerator.next: return f"mx{self._value}"
MxId(value) == <<"m", "x">> \o Decimal(value)

\* TableLayout.note_lines: the index and primary-key descriptions of the
\* tables in noted, none for the others
note_lines(layout, noted) ==
    IF layout.table.name \in noted THEN << <<"P", "K">> >> ELSE <<>>

Element(kind, id, parent, table, column, source, target, fk) ==
    [kind |-> kind, id |-> id, parent |-> parent, table |-> table,
     column |-> column, source |-> source, target |-> target, fk |-> fk]

\* the state of build_drawio: the generator's value, the elements appended,
\* the two maps, and whether an exception has ended the build
Building ==
    [value |-> IdStart, elements |-> <<>>, table_id_map |-> EmptyDict,
     column_cell_ids |-> EmptyDict, raised |-> FALSE]

\* the passes of the loop over a table's columns, from column index
RECURSIVE RenderRows(_, _, _, _)
RenderRows(b, table, table_id, index) ==
    IF index > Len(table.columns) THEN b
    ELSE LET column == table.columns[index]
             row_id == MxId(NextValue(b.value))
             left_id == MxId(NextValue(NextValue(b.value)))
             right_id == MxId(NextValue(NextValue(NextValue(b.value))))
         IN RenderRows(
                [b EXCEPT
                   !.value = NextValue(NextValue(NextValue(@))),
                   !.elements = @ \o
                       <<Element("row", row_id, table_id, table.name, index, None, None, None),
                         Element("left", left_id, row_id, table.name, index, None, None, None),
                         Element("right", right_id, row_id, table.name, index, None, None, None)>>,
                   !.column_cell_ids =
                       DictPut(@, <<table.name, lower(column.name)>>, right_id)],
                table, table_id, index + 1)

\* one pass of the loop over the layouts
RenderTable(b, layout, noted) ==
    LET table == layout.table
        group_id == MxId(NextValue(b.value))
        table_id == MxId(NextValue(NextValue(b.value)))
        b1 == [b EXCEPT
                 !.value = NextValue(NextValue(@)),
                 !.elements = @ \o
                     <<Element("group", group_id, <<"1">>, table.name, None, None, None, None),
                       Element("table", table_id, group_id, table.name, None, None, None, None)>>,
                 !.table_id_map = DictPut(@, table.name, table_id)]
        b2 == RenderRows(b1, table, table_id, 1)
    IN IF note_lines(layout, noted) # <<>>
       THEN [b2 EXCEPT
               !.value = NextValue(@),
               !.elements = Append(@,
                   Element("note", MxId(NextValue(b2.value)), group_id, table.name,
                           None, None, None, None))]
       ELSE b2

RECURSIVE RenderTables(_, _, _)
RenderTables(b, layouts, noted) ==
    IF layouts = <<>> THEN b
    ELSE RenderTables(RenderTable(b, Head(layouts), noted), Tail(layouts), noted)

\* the members of a set of str as a list, in some order (here descending)
SeqOf(S) ==
    [i \in 1..Cardinality(S) |->
        CHOOSE k \in S : Cardinality({j \in S : StrLess(k, j)}) = i - 1]

\* whether pairing the columns of fk raises: local_columns[0] of an empty list
PairsRaise(fk) ==
    /\ fk.ref_columns # <<>>
    /\ Len(fk.ref_columns) # Len(fk.columns)
    /\ fk.columns = <<>>

\* the pairs (local_col, ref_col) of a foreign key
Pairs(fk) ==
    IF fk.ref_columns # <<>> /\ Len(fk.ref_columns) = Len(fk.columns)
    THEN [i \in 1..Len(fk.columns) |-> <<fk.columns[i], fk.ref_columns[i]>>]
    ELSE IF fk.ref_columns # <<>>
    THEN << <<fk.columns[1], fk.ref_columns[1]>> >>
    ELSE [i \in 1..Len(fk.columns) |-> <<fk.columns[i], None>>]

\* the first of candidates that has a cell on ref_table, None if none has
RECURSIVE FirstHit(_, _, _)
FirstHit(column_cell_ids, ref_table, candidates) ==
    IF candidates = <<>> THEN None
    ELSE IF DictGet(column_cell_ids, <<ref_table, Head(candidates)>>, None) # None
    THEN DictGet(column_cell_ids, <<ref_table, Head(candidates)>>, None)
    ELSE FirstHit(column_cell_ids, ref_table, Tail(candidates))

\* target_cell with the candidates left out: the explicit target column only
TargetCellExplicit(b, s, fk, local_col, ref_col) ==
    IF ref_col # None
    THEN DictGet(b.column_cell_ids, <<fk.ref_table, lower(ref_col)>>, None)
    ELSE None

\* target_cell for one pair
TargetCell(b, s, fk, local_col, ref_col) ==
    LET explicit == IF ref_col # None
                    THEN DictGet(b.column_cell_ids, <<fk.ref_table, lower(ref_col)>>, None)
                    ELSE None
    IN IF explicit = None /\ fk.ref_table \in DOMAIN s
       THEN FirstHit(b.column_cell_ids, fk.ref_table,
                     (IF ref_col # None THEN <<lower(ref_col)>> ELSE <<>>)
                     \o <<lower(local_col)>>
                     \o MapSeq(sorted(SeqOf(s[fk.ref_table].primary_key)), lower))
       ELSE explicit

\* source_ref always the box of the source table
SourceRefBox(b, table, local_col, source_id) == source_id

\* source_ref for one pair: source_cell or source_id
SourceRef(b, table, local_col, source_id) ==
    LET source_cell == DictGet(b.column_cell_ids, <<table.name, lower(local_col)>>, None)
    IN IF source_cell # None THEN source_cell ELSE source_id

\* the edge of one pair
Edge(b, s, key, index, source_id, target_table_id, local_col, ref_col) ==
    LET fk == s[key].foreign_keys[index]
        target_cell == TargetCell(b, s, fk, local_col, ref_col)
    IN Element("edge", MxId(NextValue(b.value)), <<"1">>, key, local_col,
               SourceRef(b, s[key], local_col, source_id),
               IF target_cell # None THEN target_cell ELSE target_table_id,
               [index |-> index, ref_col |-> ref_col])

\* the passes of the loop over the pairs of a foreign key
RECURSIVE EmitPairs(_, _, _, _, _, _, _)
EmitPairs(b, s, key, index, source_id, target_table_id, pairs) ==
    IF pairs = <<>> THEN b
    ELSE EmitPairs(
             [b EXCEPT
                !.value = NextValue(@),
                !.elements = Append(@,
                    Edge(b, s, key, index, source_id, target_table_id,
                         Head(pairs)[1], Head(pairs)[2]))],
             s, key, index, source_id, target_table_id, Tail(pairs))

\* the passes of the loop over the foreign keys of a table, from index
RECURSIVE EdgesOfTable(_, _, _, _, _)
EdgesOfTable(b, s, key, source_id, index) ==
    IF b.raised \/ index > Len(s[key].foreign_keys) THEN b
    ELSE LET fk == s[key].foreign_keys[index]
             target_table_id == DictGet(b.table_id_map, fk.ref_table, None)
         IN IF target_table_id = None
            THEN EdgesOfTable(b, s, key, source_id, index + 1)
            ELSE IF PairsRaise(fk) THEN [b EXCEPT !.raised = TRUE]
            ELSE EdgesOfTable(
                     EmitPairs(b, s, key, index, source_id, target_table_id, Pairs(fk)),
                     s, key, source_id, index + 1)

\* the passes of the loop over sorted(schema.keys())
RECURSIVE EdgesOfTables(_, _, _)
EdgesOfTables(b, s, table_names) ==
    IF b.raised \/ table_names = <<>> THEN b
    ELSE LET source_id == DictGet(b.table_id_map, s[Head(table_names)].name, None)
         IN IF source_id = None
            THEN EdgesOfTables(b, s, Tail(table_names))
            ELSE EdgesOfTables(EdgesOfTable(b, s, Head(table_names), source_id, 1),
                               s, Tail(table_names))

\* build_drawio: what was appended to root, and whether the build raised
build_drawio(s, config, noted) ==
    EdgesOfTables(RenderTables(Building, layout_tables(s, config), noted),
                  s, SortedKeys(s))

(***************************************************************************)
(* SpecDrawio: build_drawio called once on a Schema of tables t and u,     *)
(* where t has up to MaxFks foreign keys of every shape the pairing and    *)
(* the anchor resolution tell apart, and u has its columns and primary key *)
(* in four variants.                                                       *)
(***************************************************************************)
MaxFks == 2

ColD == <<"d">>
ColZ == <<"z", "z">>
ColY == <<"y", "y">>

DrawioForeignKeys ==
    {ForeignKey(<<ColB>>, TableU, <<ColA>>, None),
     ForeignKey(<<ColA, ColB>>, TableU, <<ColA, ColB>>, None),
     ForeignKey(<<ColA, ColB>>, TableU, <<ColA>>, None),
     ForeignKey(<<>>, TableU, <<ColA>>, None),
     ForeignKey(<<ColB>>, TableU, <<>>, None),
     ForeignKey(<<ColA, ColB>>, TableU, <<>>, None),
     ForeignKey(<<ColZ>>, TableU, <<ColY>>, None),
     ForeignKey(<<ColA>>, TableV, <<ColA>>, None),
     ForeignKey(<< <<"B">> >>, TableU, << <<"A">> >>, None),
     ForeignKey(<<>>, TableU, <<>>, None),
     ForeignKey(<<ColB>>, TableT, <<ColA>>, None)}

RECURSIVE AddForeignKeys(_, _)
AddForeignKeys(T, fks) ==
    IF fks = <<>> THEN T
    ELSE AddForeignKeys(add_foreign_key(T, Head(fks), None), Tail(fks))

RECURSIVE AddColumns(_, _)
AddColumns(T, names) ==
    IF names = <<>> THEN T
    ELSE AddColumns(add_column(T, Column(Head(names), TypeInt, TRUE, FALSE)), Tail(names))

DrawioSource(fks) ==
    AddForeignKeys(set_primary_key(AddColumns(Table(TableT, 1), <<ColA, ColB>>),
                                   {ColA}, None), fks)

\* u with columns a, b and primary key a, and a foreign key to t; u with
\* columns b, c and primary key c; u with columns d, c and primary key
\* {d, c}; u with no column
DrawioTargets ==
    {add_foreign_key(
         set_primary_key(AddColumns(Table(TableU, 2), <<ColA, ColB>>), {ColA}, None),
         ForeignKey(<<ColB>>, TableT, <<ColB>>, None), None),
     set_primary_key(AddColumns(Table(TableU, 2), <<ColB, ColC>>), {ColC}, None),
     set_primary_key(AddColumns(Table(TableU, 2), <<ColD, ColC>>), {ColD, ColC}, None),
     Table(TableU, 2)}

DrawioSchemas ==
    {[k \in {TableT, TableU} |-> IF k = TableT THEN DrawioSource(fks) ELSE U] :
        fks \in UNION {[1..n -> DrawioForeignKeys] : n \in 0..MaxFks},
        U \in DrawioTargets}

BuildDrawio(noted) ==
    /\ pc = "idle"
    /\ steps = 0
    /\ steps' = 1
    /\ last' = Call("build_drawio", None, None, None, noted)
    /\ result' = build_drawio(schema, LayoutConfig(3, 60), noted)
    /\ UNCHANGED <<schema, before, pc, files, listing, queue>>

InitDrawio ==
    /\ schema \in DrawioSchemas
    /\ before = schema
    /\ last = Call("init", None, None, None, None)
    /\ steps = 0
    /\ InitLoader

NextDrawio == \E noted \in {{}, {TableT}} : BuildDrawio(noted)

SpecDrawio == InitDrawio /\ [][NextDrawio]_vars

\* a < b for two decimal numerals without leading zeros
DecimalLess(a, b) == Len(a) < Len(b) \/ (Len(a) = Len(b) /\ StrLess(a, b))

\* the numeral of an element id, after its two-letter prefix
Numeral(id) == SubSeq(id, 3, Len(id))

ElementKinds == {"group", "table", "row", "left", "right", "note", "edge"}

\* C15: every element build_drawio renders (group, table box, row, the two
\* cells of a row, note, edge) has an id whose numeral is greater than that
\* of every element rendered before it: the ids are pairwise distinct and
\* none is one of the reserved root ids "0" and "1".
C15_ElementIdsAreDistinct ==
    last.op = "build_drawio" =>
        /\ \A i \in 1..Len(result.elements) :
              /\ result.elements[i].kind \in ElementKinds
              /\ Len(result.elements[i].id) >= 3
              /\ SubSeq(result.elements[i].id, 1, 2) = <<"m", "x">>
              /\ Elems(Numeral(result.elements[i].id)) \subseteq Elems(DigitChars)
              /\ result.elements[i].id \notin RootIds
        /\ \A i, j \in 1..Len(result.elements) :
              i < j =>
                 /\ DecimalLess(Numeral(result.elements[i].id),
                                Numeral(result.elements[j].id))
                 /\ result.elements[i].id # result.elements[j].id

\* a document with an element of every kind, among them ids of one and of
\* two digits
C15_Witness ==
    /\ last.op = "build_drawio"
    /\ ~result.raised
    /\ \A kind \in ElementKinds :
          \E i \in 1..Len(result.elements) : result.elements[i].kind = kind
    /\ \E i, j \in 1..Len(result.elements) :
          /\ Len(result.elements[i].id) = 3
          /\ Len(result.elements[j].id) = 4
          /\ result.elements[j].kind = "edge"

\* the id of the box rendered for the table called name, None if there is none
BoxId(name) ==
    LET boxes == {i \in 1..Len(result.elements) :
                     /\ result.elements[i].kind = "table"
                     /\ result.elements[i].table = name}
    IN IF boxes = {} THEN None
       ELSE result.elements[CHOOSE i \in boxes : \A j \in boxes : j <= i].id

\* the edges rendered for foreign key index of the table under key, in order
EdgesFor(key, index) ==
    LET IsEdgeOf(e) == e.kind = "edge" /\ e.table = key /\ e.fk.index = index
    IN SelectSeq(result.elements, IsEdgeOf)

\* C16: for each foreign key whose source and target tables are rendered,
\* there is one edge per column pair: the local and target columns paired by
\* position when target columns are given in equal number; exactly one edge,
\* first local column to first target column, when target columns are given
\* in a different number; each local column with no target column when no
\* target columns are given.
C16_OneEdgePerColumnPair ==
    last.op = "build_drawio" =>
        \A key \in DOMAIN schema : \A index \in FkPositions(schema[key]) :
            LET fk == schema[key].foreign_keys[index]
                edges == EdgesFor(key, index)
            IN (BoxId(schema[key].name) # None /\ BoxId(fk.ref_table) # None) =>
                  IF fk.ref_columns # <<>> /\ Len(fk.ref_columns) = Len(fk.columns)
                  THEN /\ Len(edges) = Len(fk.columns)
                       /\ \A i \in 1..Len(edges) :
                             /\ edges[i].column = fk.columns[i]
                             /\ edges[i].fk.ref_col = fk.ref_columns[i]
                  ELSE IF fk.ref_columns # <<>>
                  THEN /\ Len(edges) = 1
                       /\ edges[1].fk.ref_col = fk.ref_columns[1]
                       /\ fk.columns # <<>> => edges[1].column = fk.columns[1]
                  ELSE /\ Len(edges) = Len(fk.columns)
                       /\ \A i \in 1..Len(edges) :
                             /\ edges[i].column = fk.columns[i]
                             /\ edges[i].fk.ref_col = None

\* C19: the edge pass of build_drawio raises for no foreign key: not for
\* different numbers of local and target columns, not for an empty target
\* or local column list, not for columns neither table has; and every edge
\* is anchored at a cell or at a table box.
C19_EdgePassNeverRaises ==
    last.op = "build_drawio" =>
        /\ ~result.raised
        /\ \A i \in 1..Len(result.elements) :
              result.elements[i].kind = "edge" =>
                 /\ \E j \in 1..Len(result.elements) :
                       /\ result.elements[j].kind \in {"right", "table"}
                       /\ result.elements[j].id = result.elements[i].source
                 /\ \E j \in 1..Len(result.elements) :
                       /\ result.elements[j].kind \in {"right", "table"}
                       /\ result.elements[j].id = result.elements[i].target

\* the id of the label cell rendered for column col (in any case) of the
\* table called name, None if there is none; of several, the last rendered
CellFor(name, col) ==
    LET cells == {i \in 1..Len(result.elements) :
                     /\ result.elements[i].kind = "right"
                     /\ result.elements[i].table = name
                     /\ lower(schema[name].columns[result.elements[i].column].name)
                            = lower(col)}
    IN IF cells = {} THEN None
       ELSE result.elements[CHOOSE i \in cells : \A j \in cells : j <= i].id

\* the members of a set of names in ascending order
Ascending(S) ==
    [i \in 1..Cardinality(S) |->
        CHOOSE k \in S : Cardinality({j \in S : StrLess(j, k)}) = i - 1]

EdgePositions == {i \in 1..Len(result.elements) : result.elements[i].kind = "edge"}

\* C17: the target anchor of the edge of a column pair is the first rendered
\* cell among: the explicit target column on the target table, the column
\* of the target table named like the local column, and the columns of the
\* target table's primary key in sorted order; it is the target table's box
\* id only when none of them is a rendered cell.
C17_TargetAnchorOrder ==
    last.op = "build_drawio" =>
        \A p \in EdgePositions :
            LET e == result.elements[p]
                ref_table == schema[e.table].foreign_keys[e.fk.index].ref_table
                candidates ==
                    (IF e.fk.ref_col # None THEN <<e.fk.ref_col>> ELSE <<>>)
                    \o <<e.column>>
                    \o Ascending(schema[ref_table].primary_key)
                hits == {i \in 1..Len(candidates) : CellFor(ref_table, candidates[i]) # None}
            IN e.target =
                  IF hits = {} THEN BoxId(ref_table)
                  ELSE CellFor(ref_table,
                               candidates[CHOOSE i \in hits : \A j \in hits : i <= j])

\* an edge whose explicit target column and local column are no columns of
\* the target table is anchored at the cell of c, the first of the primary
\* key {d, c} in sorted order though d is declared first; and in the same
\* document an edge is anchored at the column named like its local column
C17_Witness ==
    /\ last.op = "build_drawio"
    /\ ~result.raised
    /\ schema[TableU].primary_key = {ColD, ColC}
    /\ \E p \in EdgePositions :
          /\ result.elements[p].column = ColZ
          /\ result.elements[p].fk.ref_col = ColY
          /\ result.elements[p].target = CellFor(TableU, ColC)
          /\ CellFor(TableU, ColC) # None
          /\ CellFor(TableU, ColD) # None
    /\ \E p \in EdgePositions :
          /\ result.elements[p].table = TableT
          /\ result.elements[p].column = ColB
          /\ result.elements[p].fk.ref_col = ColA
          /\ result.elements[p].target = CellFor(TableT, ColA)

\* C18: the source anchor of an edge is the label cell of the local column
\* when the source table has that column rendered, and the source table's
\* box id otherwise; so when the local column and the explicit target column
\* are both rendered, both ends are label cells and neither is a box id.
C18_SourceAnchor ==
    last.op = "build_drawio" =>
        \A p \in EdgePositions :
            LET e == result.elements[p]
                source == schema[e.table].name
                ref_table == schema[e.table].foreign_keys[e.fk.index].ref_table
                IsLabelCell(id) == \E i \in 1..Len(result.elements) :
                                      /\ result.elements[i].kind = "right"
                                      /\ result.elements[i].id = id
            IN /\ e.source = IF CellFor(source, e.column) # None
                             THEN CellFor(source, e.column)
                             ELSE BoxId(source)
               /\ (/\ CellFor(source, e.column) # None
                   /\ e.fk.ref_col # None
                   /\ CellFor(ref_table, e.fk.ref_col) # None) =>
                      /\ IsLabelCell(e.source)
                      /\ IsLabelCell(e.target)
                      /\ e.source \notin {BoxId(source), BoxId(ref_table)}
                      /\ e.target \notin {BoxId(source), BoxId(ref_table)}
                      /\ e.target = CellFor(ref_table, e.fk.ref_col)

\* t(b) -> u(a), with a the primary key of u: the edge runs from the cell
\* of t.b to the cell of u.a; and the edge of a local column that t does
\* not have starts at the box of t
C18_Witness ==
    /\ last.op = "build_drawio"
    /\ ~result.raised
    /\ schema[TableU].primary_key = {ColA}
    /\ \E p \in EdgePositions :
          /\ result.elements[p].table = TableT
          /\ result.elements[p].column = ColB
          /\ result.elements[p].fk.ref_col = ColA
          /\ result.elements[p].source = CellFor(TableT, ColB)
          /\ result.elements[p].target = CellFor(TableU, ColA)
          /\ CellFor(TableT, ColB) # None
          /\ CellFor(TableU, ColA) # None
    /\ \E p \in EdgePositions :
          /\ result.elements[p].column = ColZ
          /\ result.elements[p].source = BoxId(TableT)

\* ---------------------------------------------------------------------
\* png_renderer.py: the PNG writer. bytes is a sequence of 0..255.
\* ---------------------------------------------------------------------

\* the characters of code points 32 to 126, in code point order (the
\* backslash, 92, and the backtick, 96, are spelled out: no text modelled
\* here holds one)
Printable ==
    <<" ", "!", "\"", "#", "$", "%", "&", "'", "(", ")", "*", "+",
       ",", "-", ".", "/", "0", "1", "2", "3", "4", "5", "6", "7",
       "8", "9", ":", ";", "<", "=", ">", "?", "@", "A", "B", "C",
       "D", "E", "F", "G", "H", "I", "J", "K", "L", "M", "N", "O",
       "P", "Q", "R", "S", "T", "U", "V", "W", "X", "Y", "Z", "[",
       "backslash", "]", "^", "_", "backtick", "a", "b", "c", "d", "e", "f", "g",
       "h", "i", "j", "k", "l", "m", "n", "o", "p", "q", "r", "s",
       "t", "u", "v", "w", "x", "y", "z", "{", "|", "}", "~">>

\* str.encode for text of these characters ("latin-1" and "utf-8" agree
\* on them): one byte per character, its code point
encode(s) ==
    [i \in 1..Len(s) |->
        31 + CHOOSE k \in 1..Len(Printable) : Printable[k] = s[i]]

\* n.to_bytes(4, "big") raises OverflowError for a negative n (and for
\* n >= 2^32, which is beyond the integers modelled here)
to_bytes_raises(n) == n < 0

\* n.to_bytes(4, "big") for 0 <= n < 2^31
to_bytes(n) ==
    <<(n \div 16777216) % 256, (n \div 65536) % 256,
      (n \div 256) % 256, n % 256>>

\* zlib.crc32 on 32-bit words held as the set of their 1 bits (bit 0 is
\* the least significant): xor is the symmetric difference
SymDiff(a, b) == (a \ b) \cup (b \ a)
ShiftRight(word) == {b - 1 : b \in word \ {0}}
ByteBits(byte) == {i \in 0..7 : (byte \div (2 ^ i)) % 2 = 1}

\* the reflected CRC-32 polynomial 0xEDB88320
PolyBits == {31, 30, 29, 27, 26, 24, 23, 21, 20, 19, 15, 9, 8, 5}

\* one bit of the register shifted out
CrcShift(word) ==
    IF 0 \in word THEN SymDiff(ShiftRight(word), PolyBits)
    ELSE ShiftRight(word)

\* the register after one more byte
CrcByte(word, byte) ==
    LET mixed == SymDiff(word, ByteBits(byte))
    IN CrcShift(CrcShift(CrcShift(CrcShift(
           CrcShift(CrcShift(CrcShift(CrcShift(mixed))))))))

\* the register after the bytes data[lo..hi], taken in order. The range
\* is halved, and the register is looked at before each half is entered,
\* to keep the evaluation shallow.
RECURSIVE CrcFold(_, _, _, _)
CrcFold(word, data, lo, hi) ==
    IF word \subseteq 0..31 /\ lo <= hi
    THEN IF lo = hi THEN CrcByte(word, data[lo])
         ELSE LET mid == (lo + hi) \div 2
              IN CrcFold(CrcFold(word, data, lo, mid), data, mid + 1, hi)
    ELSE word

crc32(data) == (0..31) \ CrcFold(0..31, data, 1, Len(data))

\* word.to_bytes(4, "big") of a 32-bit word held as its set of 1 bits
WordBytes(word) ==
    LET Bit(p) == IF p \in word THEN 1 ELSE 0
        Byte(low) == Bit(low) + 2 * Bit(low + 1) + 4 * Bit(low + 2)
                     + 8 * Bit(low + 3) + 16 * Bit(low + 4)
                     + 32 * Bit(low + 5) + 64 * Bit(low + 6)
                     + 128 * Bit(low + 7)
    IN <<Byte(24), Byte(16), Byte(8), Byte(0)>>

\* the Adler-32 sums <<a, b>> after the bytes data[lo..hi], taken in
\* order, halved in the same way
RECURSIVE AdlerFold(_, _, _, _)
AdlerFold(sums, data, lo, hi) ==
    IF sums[1] >= 0 /\ lo <= hi
    THEN IF lo = hi
         THEN LET a == (sums[1] + data[lo]) % 65521
              IN <<a, (sums[2] + a) % 65521>>
         ELSE LET mid == (lo + hi) \div 2
              IN AdlerFold(AdlerFold(sums, data, lo, mid), data, mid + 1, hi)
    ELSE sums

\* zlib.adler32(data).to_bytes(4, "big"), which ends a zlib stream
adler32(data) ==
    LET sums == AdlerFold(<<1, 0>>, data, 1, Len(data))
    IN <<sums[2] \div 256, sums[2] % 256, sums[1] \div 256, sums[1] % 256>>

\* zlib.compress(data, 9): the two header bytes 78 DA, the deflate stream
\* and the Adler-32 of data. The deflate stream is left open: `body` is
\* any byte string, so whatever holds of the file holds for the real one.
zlib_compress(data, body) ==
    <<120, 218>> \o body \o adler32(data)

\* base64.b64encode
Alphabet64 == UpperCase \o LowerCase \o DigitChars \o <<"+", "/">>
RECURSIVE b64encode(_)
b64encode(data) ==
    LET Sym(v) == encode(<<Alphabet64[v + 1]>>)
        Pad == encode(<<"=">>)
    IN IF Len(data) = 0 THEN <<>>
       ELSE IF Len(data) = 1
       THEN Sym(data[1] \div 4) \o Sym((data[1] % 4) * 16) \o Pad \o Pad
       ELSE IF Len(data) = 2
       THEN Sym(data[1] \div 4)
            \o Sym((data[1] % 4) * 16 + data[2] \div 16)
            \o Sym((data[2] % 16) * 4) \o Pad
       ELSE Sym(data[1] \div 4)
            \o Sym((data[1] % 4) * 16 + data[2] \div 16)
            \o Sym((data[2] % 16) * 4 + data[3] \div 64)
            \o Sym(data[3] % 64)
            \o b64encode(SubSeq(data, 4, Len(data)))

\* a chunk whose trailer is the CRC-32 of the payload alone
_chunk_crc_of_data(tag, data) ==
    to_bytes(Len(data)) \o tag \o data \o WordBytes(crc32(data))

\* _chunk: length, tag, data, CRC-32 of tag + data
_chunk(tag, data) ==
    to_bytes(Len(data)) \o tag \o data \o WordBytes(crc32(tag \o data))

\* _itxt_chunk; body is the deflate stream of a compressed payload
_itxt_chunk(keyword, text, compressed, body) ==
    LET keyword_bytes == encode(keyword)
        language_tag == <<>>
        translated_keyword == <<>>
        compression_flag == IF compressed THEN <<1>> ELSE <<0>>
        payload == IF compressed THEN zlib_compress(text, body) ELSE text
        compression_method == <<0>>
        data == keyword_bytes \o <<0>> \o compression_flag
                \o compression_method \o language_tag \o <<0>>
                \o translated_keyword \o <<0>> \o payload
    IN _chunk(encode(<<"i", "T", "X", "t">>), data)

\* seq[start:stop] of Python, negative indexes counting from the end
PySlice(seq, start, stop) ==
    LET n == Len(seq)
        Clamp(i) == IF i < 0 THEN Max(i + n, 0) ELSE IF i > n THEN n ELSE i
    IN SubSeq(seq, Clamp(start) + 1, Clamp(stop))

\* the filter byte 0 and the pixels of each row, rows y .. height - 1
RECURSIVE RawRows(_, _, _, _)
RawRows(pixels, row_bytes, height, y) ==
    IF y >= height THEN <<>>
    ELSE <<0>> \o PySlice(pixels, y * row_bytes, y * row_bytes + row_bytes)
         \o RawRows(pixels, row_bytes, height, y + 1)

\* the two text chunks in the reverse order
MetadataChunksReversed(xml, body) ==
    IF xml # <<>>
    THEN LET xml_bytes == encode(xml)
             encoded == b64encode(zlib_compress(xml_bytes, body))
         IN _itxt_chunk(<<"m", "x", "f", "i", "l", "e">>, encoded, FALSE, body)
            \o _itxt_chunk(<<"m", "x", "G", "r", "a", "p", "h", "M", "o",
                             "d", "e", "l">>, xml_bytes, TRUE, body)
    ELSE <<>>

\* metadata_chunks, concatenated: nothing for None and for "", else the
\* mxGraphModel chunk and then the mxfile chunk
MetadataChunks(xml, body) ==
    IF xml # <<>>
    THEN LET xml_bytes == encode(xml)
             encoded == b64encode(zlib_compress(xml_bytes, body))
         IN _itxt_chunk(<<"m", "x", "G", "r", "a", "p", "h", "M", "o",
                          "d", "e", "l">>, xml_bytes, TRUE, body)
            \o _itxt_chunk(<<"m", "x", "f", "i", "l", "e">>, encoded, FALSE,
                           body)
    ELSE <<>>

Signature == <<137, 80, 78, 71, 13, 10, 26, 10>>

\* save_png: the bytes of the file it leaves, and whether it raised.
\* deflated.raw and deflated.xml are the deflate streams of the two
\* inputs zlib.compress is given. The signature is written before the
\* header chunk is built, so a to_bytes that raises leaves it alone.
save_png(width, height, pixels, xml, deflated) ==
    LET raw == RawRows(pixels, width * 3, height, 0)
        compressed == zlib_compress(raw, deflated.raw)
        metadata_chunks == MetadataChunks(xml, deflated.xml)
    IN IF to_bytes_raises(width) \/ to_bytes_raises(height)
       THEN [stream |-> Signature, raised |-> TRUE]
       ELSE [stream |->
                Signature
                \o _chunk(encode(<<"I", "H", "D", "R">>),
                          to_bytes(width) \o to_bytes(height)
                          \o <<8, 2, 0, 0, 0>>)
                \o metadata_chunks
                \o _chunk(encode(<<"I", "D", "A", "T">>), compressed)
                \o _chunk(encode(<<"I", "E", "N", "D">>), <<>>),
             raised |-> FALSE]

\* ---- the writer called once on a small image ----

MaxSide == 2

\* a diagram document
XmlDoc == <<"<", "a", "/", ">">>

\* pixel buffers: empty, one pixel, two pixels and a byte, four pixels
PixelBuffers ==
    {<<>>, <<255, 0, 0>>, <<255, 0, 0, 0, 128, 255, 7>>,
     <<1, 2, 3, 4, 5, 6, 7, 8, 9, 10, 11, 12>>}

\* deflate streams: those zlib gives for b"" and for b"<a/>"
DeflateStreams == {<<3, 0>>, <<179, 73, 212, 183, 3, 0>>}

SavePng(width, height, pixels, xml, deflated) ==
    /\ pc = "idle"
    /\ steps = 0
    /\ steps' = 1
    /\ last' = Call("save_png", None, xml, None,
                    [width |-> width, height |-> height, pixels |-> pixels])
    /\ result' = save_png(width, height, pixels, xml, deflated)
    /\ UNCHANGED <<schema, before, pc, files, listing, queue>>

InitPng ==
    /\ schema = EmptyDict
    /\ before = schema
    /\ last = Call("init", None, None, None, None)
    /\ steps = 0
    /\ InitLoader

NextPng ==
    \E width \in -1..MaxSide, height \in -1..MaxSide,
       pixels \in PixelBuffers, xml \in {None, XmlDoc},
       raw \in DeflateStreams, zxml \in DeflateStreams :
        SavePng(width, height, pixels, xml, [raw |-> raw, xml |-> zxml])

SpecPng == InitPng /\ [][NextPng]_vars

\* a PNG stream read back: the chunks after the signature, each with the
\* length its first four bytes give; a stream that ends inside a chunk
\* ends the list with Truncated
Truncated == [tag |-> <<>>, data |-> <<>>, crc |-> <<>>]

RECURSIVE ReadChunks(_, _)
ReadChunks(bytes, pos) ==
    IF pos > Len(bytes) THEN <<>>
    ELSE IF pos + 11 > Len(bytes) \/ bytes[pos] # 0 THEN <<Truncated>>
    ELSE LET n == bytes[pos + 1] * 65536 + bytes[pos + 2] * 256
                  + bytes[pos + 3]
         IN IF pos + 11 + n > Len(bytes) THEN <<Truncated>>
            ELSE <<[tag |-> SubSeq(bytes, pos + 4, pos + 7),
                    data |-> SubSeq(bytes, pos + 8, pos + 7 + n),
                    crc |-> SubSeq(bytes, pos + 8 + n, pos + 11 + n)]>>
                 \o ReadChunks(bytes, pos + 12 + n)

\* the keyword of a text chunk: the bytes before its first 0 byte
Keyword(data) ==
    LET Zeros == {i \in 1..Len(data) : data[i] = 0}
    IN IF Zeros = {} THEN data
       ELSE SubSeq(data, 1, (CHOOSE i \in Zeros : \A j \in Zeros : i <= j) - 1)

\* the file is the signature, one IHDR, the text chunks the document asks
\* for, one IDAT and an empty IEND, and nothing else
WellFormedPng(stream, xml) ==
    LET chunks == ReadChunks(stream, 9)
        Tag(name) == encode(name)
        text == IF xml # <<>> THEN 2 ELSE 0
    IN /\ Len(stream) >= 8
       /\ SubSeq(stream, 1, 8)
            = <<137>> \o encode(<<"P", "N", "G">>) \o <<13, 10, 26, 10>>
       /\ Len(chunks) = text + 3
       /\ chunks[1].tag = Tag(<<"I", "H", "D", "R">>)
       /\ \A i \in 2..(text + 1) : chunks[i].tag = Tag(<<"i", "T", "X", "t">>)
       /\ text = 2 =>
            /\ Keyword(chunks[2].data)
                 = encode(<<"m", "x", "G", "r", "a", "p", "h", "M", "o", "d",
                            "e", "l">>)
            /\ Keyword(chunks[3].data)
                 = encode(<<"m", "x", "f", "i", "l", "e">>)
       /\ chunks[text + 2].tag = Tag(<<"I", "D", "A", "T">>)
       /\ chunks[text + 3].tag = Tag(<<"I", "E", "N", "D">>)
       /\ chunks[text + 3].data = <<>>

MaxData == 3

\* the tags the writer uses
ChunkTags ==
    {encode(<<"I", "H", "D", "R">>), encode(<<"I", "D", "A", "T">>),
     encode(<<"I", "E", "N", "D">>), encode(<<"i", "T", "X", "t">>)}

\* payloads: every byte string of up to MaxData bytes over three byte
\* values, and one of 300 bytes, whose length needs two bytes
ChunkPayloads ==
    UNION {[1..n -> {0, 1, 255}] : n \in 0..MaxData}
    \cup {[i \in 1..300 |-> (i * 7) % 256]}

Chunk(tag, data) ==
    /\ pc = "idle"
    /\ steps = 0
    /\ steps' = 1
    /\ last' = Call("_chunk", None, tag, None, data)
    /\ result' = _chunk(tag, data)
    /\ UNCHANGED <<schema, before, pc, files, listing, queue>>

InitChunk ==
    /\ schema = EmptyDict
    /\ before = schema
    /\ last = Call("init", None, None, None, None)
    /\ steps = 0
    /\ InitLoader

NextChunk == \E tag \in ChunkTags, data \in ChunkPayloads : Chunk(tag, data)

SpecChunk == InitChunk /\ [][NextChunk]_vars

\* the number a 4-byte big-endian field holds (for fields below 2^31)
BigEndian(field) ==
    ((field[1] * 256 + field[2]) * 256 + field[3]) * 256 + field[4]

\* C21: a chunk _chunk(tag, data) makes is the 4-byte big-endian length of
\* data, the 4-byte tag, data, and the 4-byte big-endian CRC-32 of tag
\* followed by data; it is len(data) + 12 bytes long, and the CRC-32 of
\* the tag and payload read back from it equals the stored trailer. (The
\* trailer of an empty IEND chunk is the known AE 42 60 82.)
C21_ChunkFraming ==
    last.op = "_chunk" =>
        LET tag == last.name
            data == last.arg
            n == Len(data)
            read == ReadChunks(result, 1)
        IN /\ Len(result) = n + 12
           /\ BigEndian(SubSeq(result, 1, 4)) = n
           /\ SubSeq(result, 5, 8) = tag
           /\ SubSeq(result, 9, 8 + n) = data
           /\ SubSeq(result, 9 + n, 12 + n) = WordBytes(crc32(tag \o data))
           /\ Len(read) = 1
           /\ read[1].tag = tag
           /\ read[1].data = data
           /\ WordBytes(crc32(read[1].tag \o read[1].data)) = read[1].crc
           /\ (tag = encode(<<"I", "E", "N", "D">>) /\ n = 0
                 => read[1].crc = <<174, 66, 96, 130>>)

\* a chunk whose payload is longer than 255 bytes
C21_Witness ==
    /\ last.op = "_chunk"
    /\ Len(last.arg) = 300
    /\ Len(result) = 312
    /\ SubSeq(result, 1, 4) = <<0, 0, 1, 44>>

(***************************************************************************)
(* fk_config.py: foreign keys merged into a Schema from configuration      *)
(***************************************************************************)
\* fk_config._normalize_identifier
_normalize_identifier(value) ==
    LET text == strip(value)
    IN IF Len(text) >= 2 /\ text[1] = "\"" /\ text[Len(text)] = "\""
       THEN SubSeq(text, 2, Len(text) - 1)
       ELSE lower(text)

\* the ForeignKeyConfigEntry load_foreign_key_config builds for one entry
ForeignKeyConfigEntry(raw_table_name, local_columns, reference_table_spec, reference_columns) ==
    [table_key |-> raw_table_name,
     normalized_table |-> _normalize_identifier(raw_table_name),
     local_columns |-> MapSeq(local_columns, _normalize_identifier),
     reference_table_key |-> reference_table_spec,
     normalized_reference_table |-> _normalize_identifier(reference_table_spec),
     reference_columns |-> MapSeq(reference_columns, _normalize_identifier)]

\* text.rsplit(".", 1)[-1]
LastSegment(text) ==
    LET dots == {i \in 1..Len(text) : text[i] = "."}
    IN IF dots = {} THEN text
       ELSE SubSeq(text, 1 + (CHOOSE i \in dots : \A j \in dots : j <= i),
                   Len(text))

\* _SchemaLookup.__init__ over schema.items() in the dict's order `order`:
\* _direct keeps the last table of a lowered name, _suffix the first of a
\* suffix. A table is named by its key.
_SchemaLookup(order) ==
    LET Lowered == {lower(order[i]) : i \in 1..Len(order)}
        Suffixes == {LastSegment(l) : l \in Lowered}
        Last(l) == CHOOSE i \in 1..Len(order) :
                      /\ lower(order[i]) = l
                      /\ \A j \in 1..Len(order) : lower(order[j]) = l => j <= i
        First(x) == CHOOSE i \in 1..Len(order) :
                      /\ LastSegment(lower(order[i])) = x
                      /\ \A j \in 1..Len(order) :
                            LastSegment(lower(order[j])) = x => i <= j
    IN [direct |-> [l \in Lowered |-> order[Last(l)]],
        suffix |-> [x \in Suffixes |-> order[First(x)]]]

\* _SchemaLookup.resolve: <<key>> for the table found, <<>> for None
resolve(lookup, identifier) ==
    IF identifier = <<>> THEN <<>>
    ELSE LET normalized == lower(identifier)
             suffix == LastSegment(normalized)
         IN IF normalized \in DOMAIN lookup.direct
            THEN <<lookup.direct[normalized]>>
            ELSE IF suffix \in DOMAIN lookup.suffix
            THEN <<lookup.suffix[suffix]>>
            ELSE <<>>

_resolve_columns(T, columns) ==
    LET Resolve(column_name) ==
            IF get_column(T, column_name) > 0
            THEN T.columns[get_column(T, column_name)].name
            ELSE column_name
    IN MapSeq(columns, Resolve)

\* a test that never finds the candidate
_foreign_key_exists_never(T, candidate) == FALSE

_foreign_key_exists(T, candidate) ==
    \E i \in 1..Len(T.foreign_keys) :
        /\ T.foreign_keys[i].columns = candidate.columns
        /\ T.foreign_keys[i].ref_table = candidate.ref_table
        /\ T.foreign_keys[i].ref_columns = candidate.ref_columns

\* the ForeignKey one entry stands for, on the table it resolves to
Candidate(s, lookup, entry) ==
    LET table == resolve(lookup, entry.normalized_table)
        target_table == resolve(lookup, entry.normalized_reference_table)
    IN ForeignKey(_resolve_columns(s[table[1]], entry.local_columns),
                  IF target_table # <<>> THEN s[target_table[1]].name
                  ELSE entry.normalized_reference_table,
                  IF target_table # <<>>
                  THEN _resolve_columns(s[target_table[1]],
                                        entry.reference_columns)
                  ELSE entry.reference_columns,
                  None)

\* one iteration of apply_foreign_key_config's loop
ApplyEntry(s, lookup, entry) ==
    LET table == resolve(lookup, entry.normalized_table)
    IN IF table = <<>> THEN s
       ELSE LET candidate == Candidate(s, lookup, entry)
            IN IF _foreign_key_exists(s[table[1]], candidate) THEN s
               ELSE [s EXCEPT ![table[1]] = add_foreign_key(@, candidate, None)]

RECURSIVE ApplyEntries(_, _, _)
ApplyEntries(s, lookup, entries) ==
    IF entries = <<>> THEN s
    ELSE ApplyEntries(ApplyEntry(s, lookup, Head(entries)), lookup,
                      Tail(entries))

\* apply_foreign_key_config on a Schema whose items() come in `order`
apply_foreign_key_config(s, order, entries) ==
    ApplyEntries(s, _SchemaLookup(order), entries)

(***************************************************************************)
(* SpecFk: a list of entries is applied to a parsed Schema, and then the   *)
(* same list once more.                                                    *)
(***************************************************************************)
MaxEntries == 2

TableST == <<"s", ".", "t">>

\* t(a, b) or t("A", b), with or without the foreign key (b) -> u(a) that a
\* migration declared; u(a); s.t(a)
FkSchemaTable(name, oid, columns, fks) ==
    LET Col(n) == Column(n, TypeInt, TRUE, FALSE)
    IN [Table(name, oid) EXCEPT !.columns = MapSeq(columns, Col),
                                !.foreign_keys = fks]

FkSchemas ==
    {[k \in {TableT} \cup others |->
        IF k = TableT THEN FkSchemaTable(TableT, 1, <<first, ColB>>, fks)
        ELSE IF k = TableU THEN FkSchemaTable(TableU, 2, <<ColA>>, <<>>)
        ELSE FkSchemaTable(TableST, 3, <<ColA>>, <<>>)] :
     first \in {ColA, <<"A">>},
     fks \in {<<>>, <<ForeignKey(<<ColB>>, TableU, <<ColA>>, None)>>},
     others \in SUBSET {TableU, TableST}}

\* the orders a dict of these keys can have
Orders(keys) ==
    {order \in [1..Cardinality(keys) -> keys] :
        \A i, j \in DOMAIN order : i # j => order[i] # order[j]}

\* t: (b) -> u(a); x.t: (a) -> u(a), found by its suffix; "T": (B) -> v(z),
\* a target no table has; w: (a) -> u(a), a table no table has;
\* t: (a) -> U(A)
FkEntries ==
    {ForeignKeyConfigEntry(TableT, <<ColB>>, TableU, <<ColA>>),
     ForeignKeyConfigEntry(<<"x", ".", "t">>, <<ColA>>, TableU, <<ColA>>),
     ForeignKeyConfigEntry(<<"\"", "T", "\"">>, <<<<"B">>>>, <<"v">>,
                           <<<<"z">>>>),
     ForeignKeyConfigEntry(<<"w">>, <<ColA>>, TableU, <<ColA>>),
     ForeignKeyConfigEntry(TableT, <<ColA>>, <<"U">>, <<<<"A">>>>)}

EntryLists == UNION {[1..n -> FkEntries] : n \in 0..MaxEntries}

\* the first call is made with any list, the second with the same list
ApplyForeignKeyConfig(entries, order) ==
    /\ pc = "idle"
    /\ steps < 2
    /\ steps = 1 => last.arg = [entries |-> entries, order |-> order]
    /\ steps' = steps + 1
    /\ before' = schema
    /\ last' = Call("apply_foreign_key_config", None, None, None,
                    [entries |-> entries, order |-> order])
    /\ schema' = apply_foreign_key_config(schema, order, entries)
    /\ UNCHANGED <<pc, files, listing, queue, result>>

InitFk ==
    /\ schema \in FkSchemas
    /\ before = schema
    /\ last = Call("init", None, None, None, None)
    /\ steps = 0
    /\ InitLoader

NextFk ==
    \E entries \in EntryLists, order \in Orders(DOMAIN schema) :
        ApplyForeignKeyConfig(entries, order)

SpecFk == InitFk /\ [][NextFk]_vars

\* the (columns, ref_table, ref_columns) of the foreign keys of a list
Triples(fks) ==
    {<<fks[i].columns, fks[i].ref_table, fks[i].ref_columns>> :
        i \in 1..Len(fks)}

\* the foreign keys the entries stand for on table k of Schema s
Wanted(s, order, entries, k) ==
    LET lookup == _SchemaLookup(order)
        hits == {i \in 1..Len(entries) :
                    resolve(lookup, entries[i].normalized_table) = <<k>>}
    IN {LET fk == Candidate(s, lookup, entries[i])
        IN <<fk.columns, fk.ref_table, fk.ref_columns>> : i \in hits}

\* C22: apply_foreign_key_config adds, to the table an entry resolves to,
\* the entry's foreign key unless the table already has one with the same
\* local columns, target table and target columns: each table keeps its
\* foreign keys and gains exactly one for every wanted foreign key it did
\* not have (the same entry twice in a list adds one), and a second call
\* with the same list leaves the Schema unchanged.
C22_MergeIsIdempotent ==
    last.op = "apply_foreign_key_config" =>
        /\ DOMAIN schema = DOMAIN before
        /\ \A k \in DOMAIN schema :
              LET old == before[k].foreign_keys
                  new == schema[k].foreign_keys
                  wanted == Wanted(before, last.arg.order, last.arg.entries, k)
              IN /\ schema[k] = [before[k] EXCEPT !.foreign_keys = new]
                 /\ Len(new) >= Len(old)
                 /\ SubSeq(new, 1, Len(old)) = old
                 /\ Triples(new) = Triples(old) \cup wanted
                 /\ Len(new) - Len(old) = Cardinality(wanted \ Triples(old))
        /\ steps = 2 => schema = before

\* a list with the same entry twice added one foreign key to a table that
\* had another, and the second call has been made
C22_Witness ==
    /\ last.op = "apply_foreign_key_config"
    /\ steps = 2
    /\ Len(last.arg.entries) = 2
    /\ last.arg.entries[1] = last.arg.entries[2]
    /\ Len(schema[TableT].foreign_keys) = 2
    /\ schema[TableT].foreign_keys[2].columns = <<ColA>>

(***************************************************************************)
(* Invariants of the Schema (checked under Spec and SpecParse)             *)
(***************************************************************************)
\* C23: no table holds two columns whose names are equal ignoring case,
\* the comparison Table.get_column makes.
C23_ColumnNamesAreDistinct ==
    \A k \in DOMAIN schema :
        \A i, j \in 1..Len(schema[k].columns) :
            i # j => lower(schema[k].columns[i].name)
                        # lower(schema[k].columns[j].name)

\* C24: no operation removes a table: after every call the Schema has at
\* least as many tables as before it, and every Table object it held
\* before the call is still one of its values.
C24_NoTableIsRemoved ==
    /\ Cardinality(DOMAIN schema) >= Cardinality(DOMAIN before)
    /\ \A k \in DOMAIN before :
          \E j \in DOMAIN schema : schema[j].oid = before[k].oid

(***************************************************************************)
(* SpecIdent: a table gets a column under one identifier and is asked for  *)
(* it under another. Both go through normalize_identifier first, as every  *)
(* name the parser hands to a Table does.                                  *)
(***************************************************************************)
Quoted(name) == <<"\"">> \o name \o <<"\"">>

Identifiers ==
    LET Plain == {ColA, <<"A">>, ColB, <<"B">>, <<"a", "b">>, <<"A", "b">>}
    IN Plain \cup {Quoted(name) : name \in Plain} \cup {<<" ", "a", " ">>}

GetColumn(first, second) ==
    /\ pc = "idle"
    /\ steps = 0
    /\ steps' = 1
    /\ before' = schema
    /\ last' = Call("get_column", TableT, first, None, second)
    /\ schema' = [k \in {TableT} |->
                    add_column(Table(TableT, 1),
                               Column(normalize_identifier(first), TypeInt,
                                      TRUE, FALSE))]
    /\ result' = (get_column(schema'[TableT], normalize_identifier(second)) > 0)
    /\ UNCHANGED <<pc, files, listing, queue>>

InitIdent ==
    /\ schema = EmptyDict
    /\ before = schema
    /\ last = Call("init", None, None, None, None)
    /\ steps = 0
    /\ InitLoader

NextIdent ==
    \E first \in Identifiers, second \in Identifiers : GetColumn(first, second)

SpecIdent == InitIdent /\ [][NextIdent]_vars

\* C25: Table.get_column finds the column one identifier named under a
\* second identifier if and only if normalize_identifier gives equal
\* strings for the two, a quoted segment keeping its case and an unquoted
\* one being lower-cased.
C25_SameColumnIffSameNormalForm ==
    last.op = "get_column" =>
        (result <=>
            normalize_identifier(last.name) = normalize_identifier(last.arg))

(***************************************************************************)
(* SpecRows: layout_tables called once with a vertical gap that may be     *)
(* negative and with two row heights.                                      *)
(***************************************************************************)
NextRows ==
    \E per_row \in 0..MaxPerRow, gap_y \in {-100, 0, 60}, row_height \in {10, 30} :
        LayoutTables([LayoutConfig(per_row, 60) EXCEPT !.gap_y = gap_y,
                                                       !.row_height = row_height])

SpecRows == InitLayout /\ [][NextRows]_vars

\* the row (from 0) of the i-th geometry, and the geometries of a row
RowOf(i, config) == (i - 1) \div Max(1, config.per_row)
RowMembers(r, config) == {i \in 1..Len(result) : RowOf(i, config) = r}

\* C26: a table's height is header_height + max(1, column_count) *
\* row_height; the tables of a row share their y; the first row is at
\* padding_y and every later row at the y of the row before plus the
\* greatest height in that row plus gap_y; and with gap_y >= 0 a table of
\* an earlier row ends at or above the y of every table of a later row.
C26_RowsStackVertically ==
    last.op = "layout_tables" =>
        LET config == last.arg
            Bottom(r) ==
                LET ends == {result[i].y + result[i].height :
                                i \in RowMembers(r, config)}
                IN CHOOSE e \in ends : \A f \in ends : f <= e
        IN /\ \A i \in 1..Len(result) :
                 /\ result[i].height =
                      config.header_height
                      + (IF Len(result[i].table.columns) > 1
                         THEN Len(result[i].table.columns) ELSE 1)
                        * config.row_height
                 /\ RowOf(i, config) = 0 => result[i].y = config.padding_y
                 /\ RowOf(i, config) > 0 =>
                       result[i].y = Bottom(RowOf(i, config) - 1) + config.gap_y
           /\ config.gap_y >= 0 =>
                 \A i, j \in 1..Len(result) :
                    RowOf(i, config) < RowOf(j, config) =>
                        result[i].y + result[i].height <= result[j].y

\* two tables of different heights in the first row and a table in the
\* second, which starts below the taller one
C26_Witness ==
    /\ last.op = "layout_tables"
    /\ last.arg.per_row = 2
    /\ last.arg.gap_y = 0
    /\ Len(result) = 3
    /\ result[1].height < result[2].height
    /\ result[3].y = result[2].y + result[2].height
    /\ result[3].y > result[1].y + result[1].height

\* C27: when drop_column removes the last primary-key column of a table
\* whose primary key was named through set_primary_key, primary_key_name
\* is None afterwards.
C27_DropColumnClearsPrimaryKeyName ==
    (/\ last.op = "drop_column"
     /\ last.table \in DOMAIN before
     /\ before[last.table].primary_key # {}
     /\ before[last.table].primary_key_name # None
     /\ DictGet(before[last.table].constraint_types,
                before[last.table].primary_key_name, NoKind) = "primary_key"
     /\ schema[last.table].primary_key = {})
    => schema[last.table].primary_key_name = None

(***************************************************************************)
(* SpecReparse: parse_schema_from_sql called as a whole on a text, and     *)
(* then once more on the same text and the Schema the first call left.     *)
(***************************************************************************)
\* the loops of parse_create_table and of parse_alter_table over the
\* matches of a text, creates first
RECURSIVE ParseMatches(_, _)
ParseMatches(matches, s) ==
    IF matches = <<>> THEN s
    ELSE ParseMatches(Tail(matches),
                      IF Head(matches).kind = "create"
                      THEN parse_create_table(Head(matches), s)
                      ELSE parse_alter_table(Head(matches), s))

parse_schema_from_sql(text, s) == ParseMatches(Matches(text), s)

ReparseTexts == Texts \cup {<<AlterT>>, <<CreateU, CreateT1, AlterT>>}

ParseSchemaFromSql(text) ==
    /\ pc = "idle"
    /\ steps < 2
    /\ steps = 1 => last.arg = text
    /\ steps' = steps + 1
    /\ before' = schema
    /\ last' = Call("parse_schema_from_sql", None, None, None, text)
    /\ schema' = parse_schema_from_sql(text, schema)
    /\ UNCHANGED <<pc, files, listing, queue, result>>

NextReparse == \E text \in ReparseTexts : ParseSchemaFromSql(text)

SpecReparse == InitParse /\ [][NextReparse]_vars

\* C28: parsing a text a second time, on the Schema the first pass left,
\* leaves the Schema as it was after the first pass.
C28_ParsingIsIdempotent ==
    (last.op = "parse_schema_from_sql" /\ steps = 2) => schema = before

(***************************************************************************)
(* SpecNames: migration texts are parsed, and between the calls tables are *)
(* renamed and columns renamed through the Schema.                         *)
(***************************************************************************)
NextNames ==
    \/ \E text \in Texts : BeginParse(text)
    \/ ParseCreateTable
    \/ ParseAlterTable
    \/ EndParse
    \/ \E old \in AllTableNames, new \in AllTableNames \cup {<<"T">>} :
          RenameTable(old, new)
    \/ \E k \in AllTableNames, old \in {ColA, <<"B">>}, new \in NewColumnNames :
          RenameColumnInSchema(k, old, new)

SpecNames == InitParse /\ [][NextNames]_vars

\* C29: the key of every table of the Schema is the table's name field.
C29_KeyIsName == \A k \in DOMAIN schema : schema[k].name = k

\* a table that a migration created has been renamed to a name the Schema
\* did not have
C29_Witness ==
    /\ last.op = "rename_table"
    /\ last.name \in DOMAIN before
    /\ last.new \notin DOMAIN before
    /\ last.new \in DOMAIN schema
    /\ before[last.name].columns # <<>>
    /\ schema[last.new].oid = before[last.name].oid
    /\ schema[last.new].name = last.new
    /\ Cardinality(DOMAIN schema) >= 2

(***************************************************************************)
(* png_renderer.py: the Canvas. A canvas is its width, its height, its     *)
(* bytearray and whether the call in progress has raised.                  *)
(***************************************************************************)
RGB(r, g, b) == [r |-> r, g |-> g, b |-> b]

BACKGROUND == RGB(255, 255, 255)
TABLE_BORDER == RGB(108, 142, 191)
TEXT_COLOR == RGB(0, 0, 0)

NOTE_LINE_SPACING == 4
FONT_WIDTH == 5
FONT_HEIGHT == 7

\* FONT_MAP.get(ch, DEFAULT_GLYPH) for the glyphs of "T", "1", "." and "?";
\* every other character modelled here has no glyph of its own
Glyph(ch) ==
    IF ch = "T"
    THEN <<<<"1", "1", "1", "1", "1">>,
          <<"0", "0", "1", "0", "0">>,
          <<"0", "0", "1", "0", "0">>,
          <<"0", "0", "1", "0", "0">>,
          <<"0", "0", "1", "0", "0">>,
          <<"0", "0", "1", "0", "0">>,
          <<"0", "0", "1", "0", "0">>>>
    ELSE IF ch = "1"
    THEN <<<<"0", "0", "1", "0", "0">>,
          <<"0", "1", "1", "0", "0">>,
          <<"0", "0", "1", "0", "0">>,
          <<"0", "0", "1", "0", "0">>,
          <<"0", "0", "1", "0", "0">>,
          <<"0", "0", "1", "0", "0">>,
          <<"0", "1", "1", "1", "0">>>>
    ELSE IF ch = "."
    THEN <<<<"0", "0", "0", "0", "0">>,
          <<"0", "0", "0", "0", "0">>,
          <<"0", "0", "0", "0", "0">>,
          <<"0", "0", "0", "0", "0">>,
          <<"0", "0", "0", "0", "0">>,
          <<"0", "0", "1", "0", "0">>,
          <<"0", "0", "0", "0", "0">>>>
    ELSE <<<<"0", "1", "1", "1", "0">>,
          <<"1", "0", "0", "0", "1">>,
          <<"0", "0", "0", "1", "0">>,
          <<"0", "0", "1", "0", "0">>,
          <<"0", "0", "1", "0", "0">>,
          <<"0", "0", "0", "0", "0">>,
          <<"0", "0", "1", "0", "0">>>>

\* pixels[idx] = value on a bytearray: an index below zero counts from the
\* end, an index outside the bytearray raises IndexError; nothing is
\* written once the call has raised
PyStore(canvas, idx, value) ==
    LET n == Len(canvas.pixels)
    IN IF canvas.raised THEN canvas
       ELSE IF 0 <= idx /\ idx < n
       THEN [canvas EXCEPT !.pixels[idx + 1] = value]
       ELSE IF -n <= idx /\ idx < 0
       THEN [canvas EXCEPT !.pixels[n + idx + 1] = value]
       ELSE [canvas EXCEPT !.raised = TRUE]

\* the three assignments at idx, idx + 1 and idx + 2
StoreColor(canvas, idx, color) ==
    PyStore(PyStore(PyStore(canvas, idx, color.r), idx + 1, color.g),
            idx + 2, color.b)

\* Canvas.__init__ with _fill_background
Canvas(width, height, background) ==
    [width |-> width, height |-> height,
     pixels |-> [i \in 1..(width * height * 3) |->
                    IF i % 3 = 1 THEN background.r
                    ELSE IF i % 3 = 2 THEN background.g
                    ELSE background.b],
     raised |-> FALSE]

\* set_pixel without the test of x and y
set_pixel_unguarded(canvas, x, y, color) ==
    StoreColor(canvas, (y * canvas.width + x) * 3, color)

set_pixel(canvas, x, y, color) ==
    IF 0 <= x /\ x < canvas.width /\ 0 <= y /\ y < canvas.height
    THEN StoreColor(canvas, (y * canvas.width + x) * 3, color)
    ELSE canvas

\* set_pixel at points[lo..hi], in order. The range is halved, and a call
\* that has raised stops.
RECURSIVE SetPixels(_, _, _, _, _)
SetPixels(canvas, points, lo, hi, color) ==
    IF canvas.raised \/ lo > hi THEN canvas
    ELSE IF lo = hi THEN set_pixel(canvas, points[lo][1], points[lo][2], color)
    ELSE LET mid == (lo + hi) \div 2
         IN SetPixels(SetPixels(canvas, points, lo, mid, color),
                      points, mid + 1, hi, color)

\* the stores of fill_rect at idxs[lo..hi], in order, halved in the same way
RECURSIVE StoreColors(_, _, _, _, _)
StoreColors(canvas, idxs, lo, hi, color) ==
    IF canvas.raised \/ lo > hi THEN canvas
    ELSE IF lo = hi THEN StoreColor(canvas, idxs[lo], color)
    ELSE LET mid == (lo + hi) \div 2
         IN StoreColors(StoreColors(canvas, idxs, lo, mid, color),
                        idxs, mid + 1, hi, color)

Min(a, b) == IF a <= b THEN a ELSE b

\* range(a, b) as a sequence
Range(a, b) == [i \in 1..(IF b > a THEN b - a ELSE 0) |-> a + i - 1]

fill_rect(canvas, x0, y0, x1, y1, color) ==
    LET cx0 == Max(0, x0)
        cy0 == Max(0, y0)
        cx1 == Min(canvas.width, x1)
        cy1 == Min(canvas.height, y1)
        row_bytes == canvas.width * 3
        across == cx1 - cx0
        idxs == [k \in 1..((cy1 - cy0) * across) |->
                    (cy0 + (k - 1) \div across) * row_bytes + cx0 * 3
                    + ((k - 1) % across) * 3]
    IN IF cx0 >= cx1 \/ cy0 >= cy1 THEN canvas
       ELSE StoreColors(canvas, idxs, 1, Len(idxs), color)

draw_hline(canvas, x0, x1, y, color) ==
    IF 0 <= y /\ y < canvas.height
    THEN LET xs == Range(Max(0, x0), Min(canvas.width, x1))
         IN SetPixels(canvas, [i \in 1..Len(xs) |-> <<xs[i], y>>], 1, Len(xs),
                      color)
    ELSE canvas

draw_vline(canvas, x, y0, y1, color) ==
    IF 0 <= x /\ x < canvas.width
    THEN LET ys == Range(Max(0, y0), Min(canvas.height, y1))
         IN SetPixels(canvas, [i \in 1..Len(ys) |-> <<x, ys[i]>>], 1, Len(ys),
                      color)
    ELSE canvas

draw_rect_outline(canvas, x0, y0, x1, y1, color) ==
    draw_vline(
        draw_vline(
            draw_hline(draw_hline(canvas, x0, x1, y0, color),
                       x0, x1, y1 - 1, color),
            x0, y0, y1, color),
        x1 - 1, y0, y1, color)

\* the points _blit_glyph hands to set_pixel, in the order of its loops
BlitPoints(x, y, glyph, scale) ==
    LET across == FONT_WIDTH
        Cell(k) == [row_idx |-> (k \div (scale * scale)) \div across,
                    col_idx |-> (k \div (scale * scale)) % across,
                    sy |-> (k \div scale) % scale,
                    sx |-> k % scale]
        all == [k \in 1..(Len(glyph) * across * scale * scale) |-> Cell(k - 1)]
        Lit(cell) == glyph[cell.row_idx + 1][cell.col_idx + 1] = "1"
        Point(cell) == <<x + cell.col_idx * scale + cell.sx,
                         y + cell.row_idx * scale + cell.sy>>
    IN MapSeq(SelectSeq(all, Lit), Point)

\* text.splitlines() for text whose only line break is "\n"
RECURSIVE splitlines(_)
splitlines(text) ==
    LET breaks == {i \in 1..Len(text) : text[i] = "\n"}
        first == CHOOSE i \in breaks : \A j \in breaks : i <= j
    IN IF text = <<>> THEN <<>>
       ELSE IF breaks = {} THEN <<text>>
       ELSE <<SubSeq(text, 1, first - 1)>>
            \o splitlines(SubSeq(text, first + 1, Len(text)))

\* the points of the characters line[ci..] of a line at cursor_y
RECURSIVE LinePoints(_, _, _, _, _)
LinePoints(line, ci, x, cursor_y, scale) ==
    IF ci > Len(line) THEN <<>>
    ELSE BlitPoints(x + (ci - 1) * (FONT_WIDTH + 1) * scale, cursor_y,
                    Glyph(line[ci]), scale)
         \o LinePoints(line, ci + 1, x, cursor_y, scale)

\* the points of the lines lines[li..]
RECURSIVE TextPoints(_, _, _, _, _)
TextPoints(lines, li, x, y, scale) ==
    IF li > Len(lines) THEN <<>>
    ELSE LinePoints(lines[li], 1, x,
                    y + (li - 1) * (FONT_HEIGHT * scale + NOTE_LINE_SPACING),
                    scale)
         \o TextPoints(lines, li + 1, x, y, scale)

draw_text(canvas, x, y, text, color, scale) ==
    LET points == TextPoints(splitlines(text), 1, x, y, scale)
    IN SetPixels(canvas, points, 1, Len(points), color)

(***************************************************************************)
(* SpecCanvas: one drawing call on a canvas in any state earlier calls can *)
(* have left: every pixel is the background or one of two colours, each    *)
(* of which set_pixel can put there.                                       *)
(***************************************************************************)
CanvasSizes == {<<2, 2>>, <<3, 1>>, <<0, 2>>}
Palette == {BACKGROUND, TABLE_BORDER, TEXT_COLOR}

\* the canvas of a size whose pixels have the colours `colours` gives them
Painted(width, height, colours) ==
    [Canvas(width, height, BACKGROUND) EXCEPT
        !.pixels = [i \in 1..(width * height * 3) |->
                       LET c == colours[(i - 1) \div 3]
                       IN IF i % 3 = 1 THEN c.r
                          ELSE IF i % 3 = 2 THEN c.g ELSE c.b]]

Canvases ==
    UNION {{Painted(size[1], size[2], colours) :
               colours \in [0..(size[1] * size[2] - 1) -> Palette]} :
           size \in CanvasSizes}

Draw(call, canvas) ==
    /\ pc = "idle"
    /\ steps = 0
    /\ steps' = 1
    /\ before' = result
    /\ last' = call
    /\ result' = canvas
    /\ UNCHANGED <<schema, pc, files, listing, queue>>

SetPixel(x, y, color) ==
    Draw(Call("set_pixel", None, None, None,
              [x |-> x, y |-> y, color |-> color]),
         set_pixel(result, x, y, color))

FillRect(x0, y0, x1, y1, color) ==
    Draw(Call("fill_rect", None, None, None,
              [x0 |-> x0, y0 |-> y0, x1 |-> x1, y1 |-> y1, color |-> color]),
         fill_rect(result, x0, y0, x1, y1, color))

DrawHline(x0, x1, y, color) ==
    Draw(Call("draw_hline", None, None, None,
              [x0 |-> x0, x1 |-> x1, y |-> y, color |-> color]),
         draw_hline(result, x0, x1, y, color))

DrawVline(x, y0, y1, color) ==
    Draw(Call("draw_vline", None, None, None,
              [x |-> x, y0 |-> y0, y1 |-> y1, color |-> color]),
         draw_vline(result, x, y0, y1, color))

DrawRectOutline(x0, y0, x1, y1, color) ==
    Draw(Call("draw_rect_outline", None, None, None,
              [x0 |-> x0, y0 |-> y0, x1 |-> x1, y1 |-> y1, color |-> color]),
         draw_rect_outline(result, x0, y0, x1, y1, color))

DrawText(x, y, text, color, scale) ==
    Draw(Call("draw_text", None, None, None,
              [x |-> x, y |-> y, text |-> text, color |-> color,
               scale |-> scale]),
         draw_text(result, x, y, text, color, scale))

InitCanvas ==
    /\ schema = EmptyDict
    /\ last = Call("init", None, None, None, None)
    /\ steps = 0
    /\ pc = "idle"
    /\ files = EmptyDict
    /\ listing = <<>>
    /\ queue = <<>>
    /\ result \in Canvases
    /\ before = result

\* coordinates on, before and beyond the canvas
Coords == {-1, 0, 1, 2, 3}
Starts == {-1, 0, 1}
Ends == {0, 2, 4}
Texts2D == {<<"T">>, <<"a", ".">>, <<"1", "\n", "T">>}

NextCanvas ==
    \/ \E x \in Coords, y \in Coords, color \in {TABLE_BORDER, TEXT_COLOR} :
          SetPixel(x, y, color)
    \/ \E x0 \in Starts, y0 \in Starts, x1 \in Ends, y1 \in Ends :
          FillRect(x0, y0, x1, y1, TABLE_BORDER)
    \/ \E x0 \in Starts, x1 \in Ends, y \in Coords : DrawHline(x0, x1, y, TEXT_COLOR)
    \/ \E x \in Coords, y0 \in Starts, y1 \in Ends : DrawVline(x, y0, y1, TEXT_COLOR)
    \/ \E x0 \in Starts, y0 \in Starts, x1 \in Ends, y1 \in Ends :
          DrawRectOutline(x0, y0, x1, y1, TABLE_BORDER)
    \/ \E x \in {-4, -1, 0, 1}, y \in {-6, -12, 0}, text \in Texts2D, scale \in {0, 1, 2} :
          DrawText(x, y, text, TEXT_COLOR, scale)

SpecCanvas == InitCanvas /\ [][NextCanvas]_vars

\* the three bytes of the pixel (x, y) of a canvas
PixelAt(canvas, x, y) ==
    SubSeq(canvas.pixels, (y * canvas.width + x) * 3 + 1,
           (y * canvas.width + x) * 3 + 3)

\* whether the last call writes to (px, py): the coordinates the call names,
\* on the canvas or not
OnHline(px, py, x0, x1, y) == py = y /\ x0 <= px /\ px < x1
OnVline(px, py, x, y0, y1) == px = x /\ y0 <= py /\ py < y1
OnText(px, py, a) ==
    LET lines == splitlines(a.text)
    IN \E li \in 1..Len(lines) : \E ci \in 1..Len(lines[li]) :
          \E r \in 1..FONT_HEIGHT, c \in 1..FONT_WIDTH :
             /\ Glyph(lines[li][ci])[r][c] = "1"
             /\ LET left == a.x + (ci - 1) * (FONT_WIDTH + 1) * a.scale
                            + (c - 1) * a.scale
                    top == a.y + (li - 1) * (FONT_HEIGHT * a.scale
                                             + NOTE_LINE_SPACING)
                           + (r - 1) * a.scale
                IN /\ left <= px /\ px < left + a.scale
                   /\ top <= py /\ py < top + a.scale

Written(px, py) ==
    LET a == last.arg
    IN IF last.op = "set_pixel" THEN px = a.x /\ py = a.y
       ELSE IF last.op = "fill_rect"
       THEN a.x0 <= px /\ px < a.x1 /\ a.y0 <= py /\ py < a.y1
       ELSE IF last.op = "draw_hline" THEN OnHline(px, py, a.x0, a.x1, a.y)
       ELSE IF last.op = "draw_vline" THEN OnVline(px, py, a.x, a.y0, a.y1)
       ELSE IF last.op = "draw_rect_outline"
       THEN \/ OnHline(px, py, a.x0, a.x1, a.y0)
            \/ OnHline(px, py, a.x0, a.x1, a.y1 - 1)
            \/ OnVline(px, py, a.x0, a.y0, a.y1)
            \/ OnVline(px, py, a.x1 - 1, a.y0, a.y1)
       ELSE OnText(px, py, a)

\* C30: after a drawing call with any coordinates the call has not raised,
\* the bytearray still has width * height * 3 bytes, every pixel of the
\* canvas the call writes to has the call's colour, and every other pixel
\* is as it was; a set_pixel outside the canvas changes nothing.
C30_DrawingIsBoundsSafe ==
    last.op # "init" =>
        /\ ~result.raised
        /\ result.width = before.width
        /\ result.height = before.height
        /\ Len(result.pixels) = result.width * result.height * 3
        /\ \A px \in 0..(result.width - 1), py \in 0..(result.height - 1) :
              PixelAt(result, px, py) =
                  IF Written(px, py)
                  THEN <<last.arg.color.r, last.arg.color.g, last.arg.color.b>>
                  ELSE PixelAt(before, px, py)
        /\ (last.op = "set_pixel"
              /\ ~(0 <= last.arg.x /\ last.arg.x < result.width
                   /\ 0 <= last.arg.y /\ last.arg.y < result.height))
           => result = before

\* a text drawn from above and left of the canvas changed some pixels of a
\* two by two canvas and left others
C30_Witness ==
    /\ last.op = "draw_text"
    /\ last.arg.x < 0
    /\ last.arg.y < 0
    /\ result.width = 2
    /\ result # before
    /\ \E px \in 0..1, py \in 0..1 :
          /\ ~Written(px, py)
          /\ PixelAt(result, px, py) = PixelAt(before, px, py)
          /\ PixelAt(result, px, py) # <<0, 0, 0>>

====
